---------------------------- MODULE Spec2Model ----------------------------
(***************************************************************************)
(* Model lifecycle registry and deployment orchestrator                    *)
(* (backend/app/ml/models/model_manager.py, class MLModelManager).         *)
(*                                                                         *)
(* The registry is an insertion-ordered dict of ModelArtifact; it is       *)
(* modelled as a sequence of artifact records in insertion order.  A model *)
(* id "health_scoring_<M.m.p>_<unix seconds>" is the tuple <<M, m, p, ts>>,*)
(* Python's None is the empty tuple.  A call of create_model_version,      *)
(* validate_model, deploy_model or rollback_model is one action; a call of *)
(* trigger_retraining is one action per await of its pipeline.  What the   *)
(* file system answers to a load (the artifact's files are there and hold  *)
(* a model, are missing, or hold no model) is an input of the call.  The   *)
(* record ret holds the operation that returned last and how it returned.  *)
(***************************************************************************)
EXTENDS Integers, Sequences, FiniteSets, TLC

VARIABLES
    model_registry,            \* self.model_registry, in insertion order
    current_production_model,  \* self.current_production_model
    staging_model,             \* self.staging_model
    health_scoring_service,    \* self.health_scoring_service (the active model)
    registry_loaded,           \* self.registry_loaded
    retraining_in_progress,    \* self.retraining_in_progress
    performance_history,       \* self.performance_history
    performance_dir,           \* the metrics_*.json files of performance_dir
    backups,                   \* the directories of backup_root
    retraining_config,         \* self.retraining_config.backup_before_deploy
    model_dir,                 \* the files of the model_dir of an artifact
    checksum,                  \* the checksum computed of model_dir
    persisted,                 \* metadata/model_registry.json
    now,                       \* the clock, read by create_model_version
    deprecation_order,         \* history: the DEPRECATED artifacts, in the order
                               \* in which they were marked DEPRECATED
    pc,                        \* position of the call of each task
    retrain_model,             \* the model_id local of the call of each task
    retrain_call,              \* the arguments of the call of each task
    ret,                       \* the call that returned last
    active_alerts,             \* PredictiveAlertService.active_alerts
    alert_history,             \* PredictiveAlertService.alert_history
    suppression_rules,         \* PredictiveAlertService.suppression_rules
    uuids,                     \* the number of MaintenanceAlert ids drawn
    generated                  \* the list generate_alerts_for_device returned last

\* The variables of the alert service.
alert_vars == <<active_alerts, alert_history, suppression_rules, uuids, generated>>

vars == <<model_registry, current_production_model, staging_model,
          health_scoring_service, registry_loaded, retraining_in_progress,
          performance_history, performance_dir, backups, retraining_config,
          model_dir, checksum, persisted, now, deprecation_order, pc,
          retrain_model, retrain_call, ret, alert_vars>>

\* The variables of the registry proper: catalogue, pointers, active model.
registry_vars == <<model_registry, current_production_model, staging_model,
                   health_scoring_service>>

-----------------------------------------------------------------------------
(* Bounds of the model *)

\* create_model_version is enabled while the catalogue holds fewer artifacts.
MaxModels == 2

\* The same for the specification of rollback resolution, which needs two
\* DEPRECATED artifacts beside the production one.
MaxRollbackModels == 3

\* The same for the specification of the version bumps.
MaxVersionModels == 2

\* The same for the specification of the creations.
MaxCreateModels == 3

\* The fields of the versions the specification of the version arithmetic
\* starts from go up to MaxVersionField.
MaxVersionField == 2

\* The files of an artifact directory hold up to MaxFileSize bytes.
MaxFileSize == 1

\* The clock of the specification of the calls as tasks of an event loop
\* stops at MaxClock.
MaxClock == 2

\* monitor_performance is enabled while the history holds fewer observations.
MaxHistory == 2

\* The callers that may have a trigger_retraining call in flight.
Tasks == {1, 2}

-----------------------------------------------------------------------------
(* Values *)

None == <<>>

TRAINING == "training"
VALIDATION == "validation"
STAGING == "staging"
PRODUCTION == "production"
DEPRECATED == "deprecated"
FAILED == "failed"

ModelStatus == {TRAINING, VALIDATION, STAGING, PRODUCTION, DEPRECATED, FAILED}

DeploymentStrategy == {"blue_green", "canary", "rolling", "immediate"}

VersionTypes == {"major", "minor", "patch"}

\* What HealthScoringService.load_models and get_model_status give for an
\* artifact directory: "loaded" (files present, primary_model set),
\* "missing" (load_models returns False or raises inside: a required file is
\* absent or unreadable), "unloaded" (load_models returns True and
\* primary_model is None, so get_model_status()['model_loaded'] is False).
LoadOutcomes == {"loaded", "missing", "unloaded"}

\* The answers a call can get: one of outcomes when the call comes to load
\* the artifact, "none" when it returns or raises before.
AnswersIn(outcomes, loads) == IF loads THEN outcomes ELSE {"none"}

Answers(loads) == AnswersIn(LoadOutcomes, loads)

\* ModelVersion(1, 0, 0), the dataclass defaults.
DefaultVersion == <<1, 0, 0>>

increment_patch(v) == <<v[1], v[2], v[3] + 1>>

\* A minor bump that forgets to reset the patch number.
increment_minor_keeping_patch(v) == <<v[1], v[2] + 1, v[3]>>

increment_minor(v) == <<v[1], v[2] + 1, 0>>

\* A major bump that leaves minor and patch as they are.
increment_major_keeping_minor(v) == <<v[1] + 1, v[2], v[3]>>

increment_major(v) == <<v[1] + 1, 0, 0>>

\* A comparison that looks at the major number alone.
VersionLess_by_major(a, b) == a[1] < b[1]

\* Python's tuple comparison on (major, minor, patch).
VersionLess(a, b) ==
    \/ a[1] < b[1]
    \/ a[1] = b[1] /\ a[2] < b[2]
    \/ a[1] = b[1] /\ a[2] = b[2] /\ a[3] < b[3]

-----------------------------------------------------------------------------
(* The catalogue as an insertion-ordered dict *)

Ids(reg) == {reg[i].id : i \in 1..Len(reg)}

IndexOf(reg, id) == CHOOSE i \in 1..Len(reg) : reg[i].id = id

Lookup(reg, id) == reg[IndexOf(reg, id)]

\* A registry with room for one entry per status: the new artifact takes
\* the place of the last entry that has its status.
RegistryPut_over_same_status(reg, art) ==
    LET same == {i \in 1..Len(reg) : reg[i].status = art.status}
    IN IF same = {} THEN Append(reg, art)
       ELSE [reg EXCEPT ![CHOOSE i \in same : \A j \in same : j <= i] = art]

\* dict[key] = value: replaces in place when the key exists, appends otherwise.
RegistryPut(reg, art) ==
    IF art.id \in Ids(reg)
    THEN [reg EXCEPT ![IndexOf(reg, art.id)] = art]
    ELSE Append(reg, art)

SetStatus(reg, id, st) == [reg EXCEPT ![IndexOf(reg, id)].status = st]

StatusOf(reg, id) == Lookup(reg, id).status

\* A latest version that is the version of the oldest entry.
_get_latest_version_of_first(reg) ==
    IF Len(reg) = 0 THEN DefaultVersion ELSE reg[1].version

\* max(values, key=(major, minor, patch)): the first maximal element.
_get_latest_version(reg) ==
    IF Len(reg) = 0 THEN DefaultVersion
    ELSE LET i == CHOOSE i \in 1..Len(reg) :
                      /\ \A j \in 1..Len(reg) : ~VersionLess(reg[i].version, reg[j].version)
                      /\ \A j \in 1..(i - 1) : VersionLess(reg[j].version, reg[i].version)
         IN reg[i].version

-----------------------------------------------------------------------------
(* Version strings.  A string is modelled by its split('.') parts, so ""   *)
(* is <<"">> and "1.0.1" is <<"1", "0", "1">>; None is the empty tuple.    *)

Digit == <<"1", "2", "3", "4", "5", "6", "7", "8", "9">>

\* str(int) for the one-digit numbers the bounded catalogue produces.
IntToStr(n) == IF n = 0 THEN "0" ELSE Digit[n]

\* ModelVersion.__str__: f"{major}.{minor}.{patch}"
VersionToString(v) == <<IntToStr(v[1]), IntToStr(v[2]), IntToStr(v[3])>>

\* int(part): the number, or -1 where Python raises ValueError.  "01" is a
\* spelling int() accepts.
ParseInt(part) ==
    IF part = "0" THEN 0
    ELSE IF part = "01" THEN 1
    ELSE IF \E n \in 1..Len(Digit) : Digit[n] = part
         THEN CHOOSE n \in 1..Len(Digit) : Digit[n] = part
         ELSE -1

\* ModelVersion.from_string: the version, or None where it raises.
from_string(parts) ==
    IF Len(parts) # 3 THEN None
    ELSE IF \E k \in 1..3 : ParseInt(parts[k]) = -1 THEN None
    ELSE <<ParseInt(parts[1]), ParseInt(parts[2]), ParseInt(parts[3])>>

\* Python's truth value of target_version: None and "" are false.
Truthy(target_version) == target_version # None /\ target_version # <<"">>

-----------------------------------------------------------------------------
(* Persistence *)

\* No model_registry.json.  readable tells whether json.load accepts the
\* file.
NoDocument == [exists |-> FALSE, readable |-> TRUE, models |-> <<>>,
               current_production_model |-> None, staging_model |-> None]

\* datetime.isoformat and datetime.fromisoformat; a time is a clock second.
isoformat(ts) == <<"T", ts>>

fromisoformat(date_string) == date_string[2]

\* ModelArtifact.to_dict: the version as a string, the status as its value
\* (statuses are modelled by their values), the creation time as text.
to_dict(artifact) ==
    [artifact EXCEPT !.version = VersionToString(artifact.version),
                     !.created_at = isoformat(artifact.created_at)]

\* Whether ModelArtifact.from_dict raises on the entry: from_string rejects
\* its version.
FromDictRaises(data) == from_string(data.version) = None

\* ModelArtifact.from_dict, on an entry whose version from_string accepts.
from_dict(data) ==
    [data EXCEPT !.version = from_string(data.version),
                 !.created_at = fromisoformat(data.created_at)]

\* The registry_data dict written by _save_model_registry.
RegistryDocument(reg, cpm, sm) ==
    [exists |-> TRUE, readable |-> TRUE,
     models |-> [i \in 1..Len(reg) |-> to_dict(reg[i])],
     current_production_model |-> cpm, staging_model |-> sm]

\* The entries of the document on which from_dict raises.
BadEntries(document) ==
    {i \in 1..Len(document.models) : FromDictRaises(document.models[i])}

\* Whether the try block of _load_model_registry is left by an exception
\* before it comes to the performance history: json.load rejects the file,
\* or from_dict raises on an entry.
LoadRaises(document) ==
    document.exists /\ (~document.readable \/ BadEntries(document) # {})

\* _load_model_registry into the empty registry of a new manager.  The
\* entries are put into the registry one by one, in the order of the
\* document, the pointers are set after the last one; an exception ends the
\* load where it stands.
_load_model_registry(document) ==
    IF ~document.exists \/ ~document.readable
    THEN [reg |-> <<>>, cpm |-> None, sm |-> None]
    ELSE IF BadEntries(document) # {}
    THEN LET k == CHOOSE i \in BadEntries(document) :
                      \A j \in BadEntries(document) : i <= j
         IN [reg |-> [i \in 1..(k - 1) |-> from_dict(document.models[i])],
             cpm |-> None, sm |-> None]
    ELSE [reg |-> [i \in 1..Len(document.models) |-> from_dict(document.models[i])],
          cpm |-> document.current_production_model,
          sm |-> document.staging_model]

\* initialize / _load_model_registry: what the in-memory registry is once
\* the operation has made sure the registry is loaded.
AfterInitialize ==
    IF registry_loaded \/ ~persisted.exists
    THEN [reg |-> model_registry, cpm |-> current_production_model,
          sm |-> staging_model]
    ELSE _load_model_registry(persisted)

\* The file name of an observation: metrics_<timestamp to the second>.json.
MetricsFile(timestamp) == <<"metrics", timestamp>>

\* PerformanceMetrics.to_dict and the reading back in
\* _load_performance_history.
MetricsToDict(metrics) == [metrics EXCEPT !.timestamp = isoformat(metrics.timestamp)]

MetricsFromDict(data) == [data EXCEPT !.timestamp = fromisoformat(data.timestamp)]

\* _save_performance_metrics: open(metrics_file, 'w') makes the file or
\* replaces the one of that name.
_save_performance_metrics(dir, metrics) ==
    LET name == MetricsFile(metrics.timestamp)
    IN [n \in DOMAIN dir \cup {name} |->
            IF n = name THEN MetricsToDict(metrics) ELSE dir[n]]

\* metrics_files[-100:]
history_load_limit == 100

\* The names of the files of dir, sorted.
RECURSIVE SortedFiles(_)
SortedFiles(names) ==
    IF names = {} THEN <<>>
    ELSE LET first == CHOOSE n \in names : \A m \in names : n[2] <= m[2]
         IN <<first>> \o SortedFiles(names \ {first})

\* _load_performance_history: the observations of the last files, oldest
\* first.
_load_performance_history(dir) ==
    LET files == SortedFiles(DOMAIN dir)
        first == IF Len(files) > history_load_limit
                 THEN Len(files) - history_load_limit + 1 ELSE 1
    IN [i \in 1..(Len(files) - first + 1) |->
            MetricsFromDict(dir[files[first + i - 1]])]

\* self.performance_history once the operation has made sure the registry
\* is loaded: the history is read after the document, in the same try block.
HistoryAfterInitialize ==
    IF registry_loaded \/ LoadRaises(persisted)
    THEN performance_history
    ELSE performance_history \o _load_performance_history(performance_dir)

-----------------------------------------------------------------------------
(* The checksum of an artifact directory.  A directory is a function from   *)
(* the names of its files to their contents, a content a sequence of       *)
(* bytes.                                                                  *)

\* The files a model_dir may hold, in the order sorted(rglob('*')) gives.
FileNames == <<"metadata.json", "model.joblib", "scaler.joblib">>

Bytes == {0, 1}

FileContents == UNION {[1..n -> Bytes] : n \in 0..MaxFileSize}

Directories ==
    UNION {[names -> FileContents] :
               names \in SUBSET {FileNames[k] : k \in 1..Len(FileNames)}}

\* The bytes hasher.update has received after the first k names: the
\* contents of the files, one after the other.
RECURSIVE Hashed(_, _)
Hashed(dir, k) ==
    IF k = 0 THEN <<>>
    ELSE Hashed(dir, k - 1)
             \o (IF FileNames[k] \in DOMAIN dir THEN dir[FileNames[k]] ELSE <<>>)

\* hashlib.sha256 as a function that maps different byte strings to
\* different digests.
sha256(bytes) == <<"sha256", bytes>>

_calculate_checksum(dir) == sha256(Hashed(dir, Len(FileNames)))

\* What joblib.dump leaves in the model_dir of a new artifact.
StoredFiles == [name \in {"model.joblib"} |-> <<1>>]

-----------------------------------------------------------------------------
\* MLModelManager.__init__: nothing is read from storage.
NewManager ==
    /\ model_registry = <<>>
    /\ current_production_model = None
    /\ staging_model = None
    /\ health_scoring_service = None
    /\ registry_loaded = FALSE
    /\ retraining_in_progress = FALSE
    /\ performance_history = <<>>
    /\ retraining_config = [backup_before_deploy |-> TRUE]
    /\ checksum = None
    /\ now = 1
    /\ deprecation_order = <<>>
    /\ pc = [t \in Tasks |-> "idle"]
    /\ retrain_model = [t \in Tasks |-> None]
    /\ retrain_call = [t \in Tasks |-> None]
    /\ ret = [op |-> "init", force |-> FALSE, res |-> "ok", err |-> "none"]

\* PredictiveAlertService.__init__ (predictive_alerts.py lines 180-184); no
\* alert has been made and no call has returned.
NewAlertService ==
    /\ active_alerts = <<>>
    /\ alert_history = <<>>
    /\ suppression_rules = <<>>
    /\ uuids = 0
    /\ generated = <<>>

\* A new manager on empty storage.
Init ==
    /\ NewManager
    /\ NewAlertService
    /\ performance_dir = <<>>
    /\ backups = {}
    /\ model_dir = StoredFiles
    /\ persisted = NoDocument

\* force is the force argument of a deploy_model call (FALSE for the other
\* calls); res is "ok" (returned, a bool function returned True), "false"
\* (returned False) or "raised"; err names the error raised or logged by a
\* call that did not succeed.
Returned(op, force, res, err) == [op |-> op, force |-> force, res |-> res, err |-> err]


-----------------------------------------------------------------------------
(* _save_model_registry: a full rewrite of the document from the whole     *)
(* in-memory registry, when the operating system accepts the write.  The   *)
(* calls as single actions cover the runs in which it does; the except     *)
(* branch, which logs a refused write and returns, is an input of the      *)
(* write step of the calls as tasks (SaveStep).                            *)
_save_model_registry(reg, cpm, sm) == RegistryDocument(reg, cpm, sm)

-----------------------------------------------------------------------------
(* create_model_version *)

NewVersion(reg, version_type) ==
    IF version_type = "major" THEN increment_major(_get_latest_version(reg))
    ELSE IF version_type = "minor" THEN increment_minor(_get_latest_version(reg))
    ELSE increment_patch(_get_latest_version(reg))

\* An id made of the clock second alone.
ModelId_of_second(version, ts) == <<0, 0, 0, ts>>

\* f"health_scoring_{new_version}_{int(datetime.now().timestamp())}"
ModelId(version, ts) == <<version[1], version[2], version[3], ts>>

NewArtifact(version, ts) ==
    [id |-> ModelId(version, ts), version |-> version, status |-> TRAINING,
     created_at |-> ts, validation_results |-> "none"]

\* stored: the artifact's files could be written (joblib.dump, copy2);
\* a failure there raises before the catalogue is touched, and the instant
\* the call read from the clock leaves no trace.
CreateEffect(version_type, stored) ==
    LET M == AfterInitialize
        art == NewArtifact(NewVersion(M.reg, version_type), now)
    IN /\ registry_loaded' = TRUE
       /\ now' = IF stored THEN now + 1 ELSE now
       /\ UNCHANGED <<health_scoring_service, deprecation_order>>
       /\ current_production_model' = M.cpm
       /\ staging_model' = M.sm
       /\ IF stored
          THEN /\ model_registry' = RegistryPut(M.reg, art)
               /\ persisted' = _save_model_registry(model_registry', M.cpm, M.sm)
          ELSE /\ model_registry' = M.reg
               /\ UNCHANGED persisted

create_model_version(version_type, stored) ==
    /\ CreateEffect(version_type, stored)
    /\ ret' = IF stored THEN Returned("create", FALSE, "ok", "none")
               ELSE Returned("create", FALSE, "raised", "store_failed")
    /\ performance_history' = HistoryAfterInitialize
    /\ UNCHANGED <<retraining_in_progress, performance_dir, backups,
                   retraining_config, model_dir, checksum,
                   alert_vars, pc, retrain_model,
                   retrain_call>>

-----------------------------------------------------------------------------
(* validate_model *)

\* _run_validation (validation data given) and _run_synthetic_validation.
_run_validation == [passed |-> TRUE, r2_score |-> 85]

\* A synthetic validation that reports an r2 of 0.90.
_run_synthetic_validation_optimistic == [passed |-> TRUE, r2_score |-> 90]

_run_synthetic_validation == [passed |-> TRUE, r2_score |-> 80]

ValidationResults(with_data) ==
    IF with_data THEN _run_validation ELSE _run_synthetic_validation

\* A validate_model that records a failed load as a failed validation.
ValidateOutcome_failing_unloadable(reg, model_id, with_data, load) ==
    IF model_id \notin Ids(reg)
    THEN [res |-> "raised", err |-> "not_found", reg |-> reg, results |-> None]
    ELSE [res |-> IF load = "missing" THEN "raised" ELSE "ok",
          err |-> IF load = "missing" THEN "load_failed" ELSE "none",
          results |-> IF load = "missing" THEN None ELSE ValidationResults(with_data),
          reg |-> [reg EXCEPT
                     ![IndexOf(reg, model_id)].validation_results =
                         IF load = "missing" THEN "failed" ELSE "passed",
                     ![IndexOf(reg, model_id)].status =
                         IF load = "missing" THEN FAILED ELSE VALIDATION]]

\* A validate_model that moves an artifact that passed to STAGING.
ValidateOutcome_to_staging(reg, model_id, with_data, load) ==
    IF model_id \notin Ids(reg)
    THEN [res |-> "raised", err |-> "not_found", reg |-> reg, results |-> None]
    ELSE IF load = "missing"
    THEN [res |-> "raised", err |-> "load_failed", reg |-> reg, results |-> None]
    ELSE LET results == ValidationResults(with_data)
             i == IndexOf(reg, model_id)
         IN [res |-> "ok", err |-> "none",
             results |-> results,
             reg |-> [reg EXCEPT
                        ![i].validation_results =
                            IF results.passed THEN "passed" ELSE "failed",
                        ![i].status =
                            IF results.passed THEN STAGING ELSE FAILED]]

\* The outcome of validate_model as a record: what it returns or that it
\* raised, and the catalogue afterwards.  The artifact's validation_results
\* and performance_metrics are assigned together from the one results dict
\* (lines 389-390): the field validation_results of the model's artifact
\* stands for the two.
ValidateOutcome(reg, model_id, with_data, load) ==
    IF model_id \notin Ids(reg)
    THEN [res |-> "raised", err |-> "not_found", reg |-> reg, results |-> None]
    ELSE IF load = "missing"
    THEN [res |-> "raised", err |-> "load_failed", reg |-> reg, results |-> None]
    ELSE LET results == ValidationResults(with_data)
             i == IndexOf(reg, model_id)
         IN [res |-> "ok", err |-> "none",
             results |-> results,
             reg |-> [reg EXCEPT
                        ![i].validation_results =
                            IF results.passed THEN "passed" ELSE "failed",
                        ![i].status =
                            IF results.passed THEN VALIDATION ELSE FAILED]]

\* The history variable after a call that marked the artifact deprecated
\* (None when it marked none) DEPRECATED and left the catalogue as reg: an
\* artifact that left DEPRECATED is dropped, the one marked now comes last.
DeprecationOrderAfter(order, reg, deprecated) ==
    LET kept == SelectSeq(order, LAMBDA id :
                    id # deprecated /\ StatusOf(reg, id) = DEPRECATED)
    IN IF deprecated # None /\ StatusOf(reg, deprecated) = DEPRECATED
       THEN Append(kept, deprecated)
       ELSE kept

ValidateEffect(model_id, with_data, load) ==
    LET M == AfterInitialize
        out == ValidateOutcome(M.reg, model_id, with_data, load)
    IN /\ registry_loaded' = TRUE
       /\ model_registry' = out.reg
       /\ current_production_model' = M.cpm
       /\ staging_model' = M.sm
       /\ deprecation_order' = DeprecationOrderAfter(deprecation_order, out.reg, None)
       /\ persisted' = IF out.res = "ok"
                       THEN _save_model_registry(out.reg, M.cpm, M.sm)
                       ELSE persisted
       /\ UNCHANGED <<health_scoring_service, now>>

validate_model(model_id, with_data, load) ==
    LET out == ValidateOutcome(AfterInitialize.reg, model_id, with_data, load)
    IN /\ ValidateEffect(model_id, with_data, load)
       /\ ret' = Returned("validate", FALSE, out.res, out.err)
    /\ performance_history' = HistoryAfterInitialize
    /\ UNCHANGED <<retraining_in_progress, performance_dir, backups,
                   retraining_config, model_dir, checksum,
                   alert_vars, pc, retrain_model,
                   retrain_call>>


-----------------------------------------------------------------------------
(* deploy_model *)

\* A deployment that replaces the active model as soon as the candidate's
\* files are read, before it asks whether a model was loaded from them.
_blue_green_deployment_swap_first(model_id, load, active, sm) ==
    IF load = "missing"
    THEN [success |-> FALSE, active |-> active, sm |-> sm]
    ELSE [success |-> load = "loaded", active |-> model_id, sm |-> model_id]

\* _blue_green_deployment: load the candidate, check that it reports itself
\* loaded, then replace the active model and set staging_model.  canary,
\* rolling and immediate call it unchanged (_execute_deployment).
_blue_green_deployment(model_id, load, active, sm) ==
    IF load = "loaded"
    THEN [success |-> TRUE,
          active |-> model_id,
          sm |-> model_id]
    ELSE [success |-> FALSE, active |-> active, sm |-> sm]

\* An _execute_deployment whose immediate strategy replaces the active model
\* without asking whether the candidate holds a model.
_execute_deployment_immediate_unchecked(model_id, strategy, load, active, sm) ==
    IF strategy = "immediate"
    THEN _blue_green_deployment_swap_first(model_id, load, active, sm)
    ELSE _blue_green_deployment(model_id, load, active, sm)

_execute_deployment(model_id, strategy, load, active, sm) ==
    IF strategy = "blue_green" THEN _blue_green_deployment(model_id, load, active, sm)
    ELSE IF strategy = "canary" THEN _blue_green_deployment(model_id, load, active, sm)
    ELSE IF strategy = "rolling" THEN _blue_green_deployment(model_id, load, active, sm)
    ELSE _blue_green_deployment(model_id, load, active, sm)

\* A readiness check that lets every artifact through.
ReadyForDeployment_unchecked(reg, model_id, force) == TRUE

\* The check of lines 432-434: deployable without force.
ReadyForDeployment(reg, model_id, force) ==
    force \/ StatusOf(reg, model_id) \in {VALIDATION, STAGING}

\* A promotion that leaves the old production artifact as it is.
MarkDeployed_keeping_old(reg, cpm, model_id) == SetStatus(reg, model_id, PRODUCTION)

\* Lines 445-449: the old production artifact is marked DEPRECATED, then the
\* candidate PRODUCTION (the later assignment wins when they are the same).
MarkDeployed(reg, cpm, model_id) ==
    LET deprecated == IF cpm # None THEN SetStatus(reg, cpm, DEPRECATED) ELSE reg
    IN SetStatus(deprecated, model_id, PRODUCTION)

\* Whether deploy_model comes to load the candidate.
DeployLoads(reg, model_id, force) ==
    model_id \in Ids(reg) /\ ReadyForDeployment(reg, model_id, force)

\* artifact.deployment_config.get(key, default) for a key deploy_model never
\* puts there: the dict is empty at creation (line 340) and gets deployed_at,
\* strategy and deployment_duration_seconds only (lines 450-454).
deployment_config_get(artifact, key, default) == default

\* Whether deploy_model calls _backup_current_production_model (line 437).
BacksUp(M, model_id, force) ==
    /\ DeployLoads(M.reg, model_id, force)
    /\ M.cpm # None
    /\ deployment_config_get(Lookup(M.reg, model_id), "backup_before_deploy", TRUE)

\* _backup_current_production_model: copytree into
\* backup_<id>_<unix seconds>; copied tells whether copytree went through,
\* it raises when the directory is there already, and what it raises is
\* logged.
_backup_current_production_model(dirs, cpm, ts, copied) ==
    IF copied /\ <<cpm, ts>> \notin dirs THEN dirs \cup {<<cpm, ts>>} ELSE dirs

\* backup_root after the deploy_model that found the registry as M.
BackupsAfter(M, model_id, force, copied) ==
    IF BacksUp(M, model_id, force)
    THEN _backup_current_production_model(backups, M.cpm, now, copied)
    ELSE backups

DeployOutcome(M, active, model_id, strategy, force, load) ==
    IF ~DeployLoads(M.reg, model_id, force)
    THEN [res |-> "raised",
          err |-> IF model_id \in Ids(M.reg) THEN "not_ready" ELSE "not_found",
          reg |-> M.reg, cpm |-> M.cpm, sm |-> M.sm, active |-> active]
    ELSE LET d == _execute_deployment(model_id, strategy, load, active, M.sm)
         IN IF d.success
            THEN [res |-> "ok", err |-> "none",
                  reg |-> MarkDeployed(M.reg, M.cpm, model_id),
                  cpm |-> model_id, sm |-> d.sm, active |-> d.active]
            ELSE [res |-> "false", err |-> "deployment_failed",
                  reg |-> M.reg, cpm |-> M.cpm, sm |-> d.sm, active |-> d.active]

DeployEffect(model_id, strategy, force, load, copied) ==
    LET M == AfterInitialize
        out == DeployOutcome(M, health_scoring_service, model_id, strategy, force, load)
    IN /\ registry_loaded' = TRUE
       /\ model_registry' = out.reg
       /\ current_production_model' = out.cpm
       /\ staging_model' = out.sm
       /\ health_scoring_service' = out.active
       /\ deprecation_order' =
              DeprecationOrderAfter(deprecation_order, out.reg,
                                    IF out.res = "ok" THEN M.cpm ELSE None)
       /\ persisted' = IF out.res = "ok"
                       THEN _save_model_registry(out.reg, out.cpm, out.sm)
                       ELSE persisted
       /\ backups' = BackupsAfter(M, model_id, force, copied)
       /\ UNCHANGED now

\* A deploy_model that gives up when the backup cannot be written.
deploy_model_backup_required(model_id, strategy, force, load, copied) ==
    LET M == AfterInitialize
        out == DeployOutcome(M, health_scoring_service, model_id, strategy, force,
                             load)
    IN /\ IF BacksUp(M, model_id, force) /\ ~copied
          THEN /\ registry_loaded' = TRUE
               /\ model_registry' = M.reg
               /\ current_production_model' = M.cpm
               /\ staging_model' = M.sm
               /\ ret' = Returned("deploy", force, "false", "deployment_failed")
               /\ UNCHANGED <<health_scoring_service, deprecation_order, persisted,
                              backups, now>>
          ELSE /\ DeployEffect(model_id, strategy, force, load, copied)
               /\ ret' = Returned("deploy", force, out.res, out.err)
       /\ performance_history' = HistoryAfterInitialize
       /\ UNCHANGED <<retraining_in_progress, performance_dir,
                      retraining_config, model_dir, checksum, alert_vars, pc,
                      retrain_model, retrain_call>>

deploy_model(model_id, strategy, force, load, copied) ==
    LET out == DeployOutcome(AfterInitialize, health_scoring_service, model_id,
                             strategy, force, load)
    IN /\ DeployEffect(model_id, strategy, force, load, copied)
       /\ ret' = Returned("deploy", force, out.res, out.err)
    /\ performance_history' = HistoryAfterInitialize
    /\ UNCHANGED <<retraining_in_progress, performance_dir, retraining_config,
                   model_dir, checksum,
                   alert_vars, pc, retrain_model, retrain_call>>


-----------------------------------------------------------------------------
(* rollback_model *)

\* The first artifact, in dict order, whose version equals the parsed one.
\* Called with a string from_string accepts.
_find_model_by_version(reg, version_str) ==
    LET target == from_string(version_str)
        hits == {i \in 1..Len(reg) : reg[i].version = target}
    IN IF hits = {} THEN None
       ELSE reg[CHOOSE i \in hits : \A j \in hits : i <= j].id

\* A resolution that takes the DEPRECATED artifact created first.
_find_earliest_deprecated_model(reg) ==
    LET dep == {i \in 1..Len(reg) : reg[i].status = DEPRECATED}
    IN IF dep = {} THEN None
       ELSE reg[CHOOSE i \in dep : \A j \in dep : reg[i].created_at <= reg[j].created_at].id

\* max(deprecated_models, key=created_at): the first maximal one in dict order.
_find_latest_deprecated_model(reg) ==
    LET dep == {i \in 1..Len(reg) : reg[i].status = DEPRECATED}
    IN IF dep = {} THEN None
       ELSE reg[CHOOSE i \in dep :
                   /\ \A j \in dep : reg[j].created_at <= reg[i].created_at
                   /\ \A j \in dep : j < i => reg[j].created_at < reg[i].created_at].id

\* Lines 487-496: the target id, or None where the code raises ValueError.
ResolveTarget(reg, target_version) ==
    IF Truthy(target_version)
    THEN IF from_string(target_version) = None THEN None
         ELSE _find_model_by_version(reg, target_version)
    ELSE _find_latest_deprecated_model(reg)

\* A rollback that does not look at the answer of the verifying load.
_verify_model_loadable_skipped(load) == TRUE

\* _verify_model_loadable: loads and asks model_loaded; any exception is False.
_verify_model_loadable(load) == load = "loaded"

\* A rollback that leaves the current production artifact as it is.
MarkRolledBack_keeping_current(reg, cpm, target) == SetStatus(reg, target, PRODUCTION)

\* Lines 506-514: statuses, then the pointer.
MarkRolledBack(reg, cpm, target) ==
    SetStatus(SetStatus(reg, cpm, DEPRECATED), target, PRODUCTION)

\* Whether rollback_model comes to load its target.
RollbackLoads(M, target_version) ==
    M.cpm # None /\ ResolveTarget(M.reg, target_version) # None

\* verify and reload are the answers to the two loads of the target.
RollbackOutcome(M, active, target_version, verify, reload) ==
    LET target == ResolveTarget(M.reg, target_version)
        unchanged(err) == [res |-> "false", err |-> err, target |-> target,
                           reg |-> M.reg, cpm |-> M.cpm, active |-> active,
                           saved |-> FALSE]
    IN IF M.cpm = None THEN unchanged("no_production")
       ELSE IF target = None THEN unchanged("not_found")
       ELSE IF ~_verify_model_loadable(verify) THEN unchanged("not_loadable")
       ELSE LET reg == MarkRolledBack(M.reg, M.cpm, target)
            IN IF reload = "missing"
               \* _load_production_model raises after the registry was saved
               THEN [res |-> "false", err |-> "reload_failed", target |-> target,
                     reg |-> reg, cpm |-> target, active |-> active, saved |-> TRUE]
               ELSE [res |-> "ok", err |-> "none", target |-> target, reg |-> reg,
                     cpm |-> target, active |-> target, saved |-> TRUE]

rollback_model(target_version, verify, reload) ==
    LET M == AfterInitialize
        out == RollbackOutcome(M, health_scoring_service, target_version, verify, reload)
    IN /\ registry_loaded' = TRUE
       /\ model_registry' = out.reg
       /\ current_production_model' = out.cpm
       /\ staging_model' = M.sm
       /\ health_scoring_service' = out.active
       /\ deprecation_order' =
              DeprecationOrderAfter(deprecation_order, out.reg,
                                    IF out.saved THEN M.cpm ELSE None)
       /\ persisted' = IF out.saved
                       THEN _save_model_registry(out.reg, out.cpm, M.sm)
                       ELSE persisted
       /\ ret' = Returned("rollback", FALSE, out.res, out.err)
       /\ performance_history' = HistoryAfterInitialize
       /\ UNCHANGED <<now, retraining_in_progress, performance_dir, backups,
                      retraining_config, model_dir, checksum, alert_vars, pc,
                      retrain_model, retrain_call>>

-----------------------------------------------------------------------------
(* monitor_performance.  An observation is the r2_score and drift_score of *)
(* PerformanceMetrics, in hundredths.                                      *)

\* _calculate_performance_metrics: r2_score_val when no outcomes are given.
placeholder_r2 == 80

\* self.performance_alert_threshold = 0.75
performance_alert_threshold == 75

\* The literals of the alert conditions: drift_score > 0.3,
\* data_quality_score < 0.8, prediction_latency_ms > 5000.
drift_alert_level == 30

data_quality_alert_level == 80

latency_alert_ms == 5000

\* _assess_data_quality returns 0.85 whatever the data.
_assess_data_quality == 85

\* alerts.append(entry) under its condition.
AppendIf(condition, entry) == IF condition THEN <<entry>> ELSE <<>>

\* Lines 893-900: the alerts list of _calculate_performance_metrics, one
\* f-string (a text and the value it formats) per condition met.
AlertsTriggered(r2_score_val, drift_score, data_quality_score, latency_ms) ==
    AppendIf(r2_score_val < performance_alert_threshold,
             <<"Low R2 score", r2_score_val>>)
    \o AppendIf(drift_score > drift_alert_level,
                <<"High drift detected", drift_score>>)
    \o AppendIf(data_quality_score < data_quality_alert_level,
                <<"Low data quality", data_quality_score>>)

\* measured: the r2 computed from actual_outcomes, None when the call gives
\* none (or predictions for one device only); drift: what
\* _calculate_drift_score draws; latency_ms: the time the load and the
\* predictions took.
_calculate_performance_metrics(measured, drift, latency_ms) ==
    LET r2_score_val == IF measured = None THEN placeholder_r2 ELSE measured[1]
    IN [timestamp |-> now,
        r2_score |-> r2_score_val,
        prediction_latency_ms |-> latency_ms,
        drift_score |-> drift,
        data_quality_score |-> _assess_data_quality,
        alerts_triggered |-> AlertsTriggered(r2_score_val, drift,
                                             _assess_data_quality, latency_ms)]

\* _check_performance_alerts: the tokens of the conditions the metrics meet.
_check_performance_alerts(metrics) ==
    AppendIf(metrics.r2_score < performance_alert_threshold,
             "model_performance_degraded")
    \o AppendIf(metrics.drift_score > drift_alert_level, "data_drift_detected")
    \o AppendIf(metrics.data_quality_score < data_quality_alert_level,
                "data_quality_poor")
    \o AppendIf(metrics.prediction_latency_ms > latency_alert_ms,
                "high_prediction_latency")

\* Whether monitor_performance comes to load the production model.
MonitorLoads(M) == M.cpm # None

\* calculate_health_scores raises on an instance without a model.  alerts is
\* what the call logs as "Performance alerts triggered" (lines 573-576): the
\* result of _check_performance_alerts for the metrics it appended; the log
\* is no state of the manager.
MonitorOutcome(M, history, load, measured, drift, latency_ms) ==
    IF ~MonitorLoads(M)
    THEN [res |-> "raised", err |-> "no_production", history |-> history,
          alerts |-> <<>>]
    ELSE IF load = "missing"
    THEN [res |-> "raised", err |-> "load_failed", history |-> history,
          alerts |-> <<>>]
    ELSE IF load = "unloaded"
    THEN [res |-> "raised", err |-> "not_loaded", history |-> history,
          alerts |-> <<>>]
    ELSE LET metrics == _calculate_performance_metrics(measured, drift, latency_ms)
         IN [res |-> "ok", err |-> "none",
             history |-> Append(history, metrics),
             alerts |-> _check_performance_alerts(metrics)]

monitor_performance(load, measured, drift, latency_ms) ==
    LET M == AfterInitialize
        out == MonitorOutcome(M, HistoryAfterInitialize, load, measured, drift,
                              latency_ms)
    IN /\ registry_loaded' = TRUE
       /\ model_registry' = M.reg
       /\ current_production_model' = M.cpm
       /\ staging_model' = M.sm
       /\ performance_history' = out.history
       /\ performance_dir' =
              IF out.res = "ok"
              THEN _save_performance_metrics(performance_dir,
                                             out.history[Len(out.history)])
              ELSE performance_dir
       /\ ret' = Returned("monitor", FALSE, out.res, out.err)
       /\ UNCHANGED <<health_scoring_service, retraining_in_progress,
                      persisted, now, deprecation_order, pc, retrain_model,
                      retrain_call, backups, retraining_config, model_dir,
                      checksum, alert_vars>>

-----------------------------------------------------------------------------
(* trigger_retraining.  A call is a coroutine: it runs without interruption *)
(* up to an await of the pipeline (_execute_retraining and, inside it,      *)
(* train_model, create_model_version, validate_model), where other calls    *)
(* may run.  pc[t] is the await the call of task t stands at.               *)

\* RetrainingConfig(), the defaults; scores are in hundredths.
enabled == TRUE

min_samples_required == 100

performance_threshold == 75

drift_threshold == 30

auto_deploy_threshold == 85

\* new_data is <<n>>, a dict whose 'features' entry has n devices, or None,
\* on which new_data.get raises: ShouldRetrainRaises tells whether the call of
\* _should_retrain raises, and _should_retrain what it returns when not.
ShouldRetrainRaises(new_data) == enabled /\ new_data = None

\* A _should_retrain that asks for both degradations.
_should_retrain_on_both(new_data) ==
    IF ~enabled THEN FALSE
    ELSE IF new_data[1] < min_samples_required THEN FALSE
    ELSE IF Len(performance_history) > 0
         THEN LET recent_metrics == performance_history[Len(performance_history)]
              IN recent_metrics.r2_score < performance_threshold
                 /\ recent_metrics.drift_score > drift_threshold
         ELSE FALSE

_should_retrain(new_data) ==
    IF ~enabled THEN FALSE
    ELSE IF new_data[1] < min_samples_required THEN FALSE
    ELSE IF Len(performance_history) > 0
         THEN LET recent_metrics == performance_history[Len(performance_history)]
              IN recent_metrics.r2_score < performance_threshold
                 \/ recent_metrics.drift_score > drift_threshold
         ELSE FALSE

InPipeline(t) == pc[t] # "idle"

\* A trigger that does not look at the guard.
TriggerDecision_unguarded(new_data, force) ==
    IF ~force /\ ShouldRetrainRaises(new_data) THEN "raised"
    ELSE IF ~force /\ ~_should_retrain(new_data) THEN "declined"
    ELSE "run"

\* Lines 603-611: "busy" when the guard is set; when the call is not forced,
\* "raised" when _should_retrain raises and "declined" when the conditions
\* are not met; "run" otherwise.
TriggerDecision(new_data, force) ==
    IF retraining_in_progress THEN "busy"
    ELSE IF ~force /\ ShouldRetrainRaises(new_data) THEN "raised"
    ELSE IF ~force /\ ~_should_retrain(new_data) THEN "declined"
    ELSE "run"

\* The call up to its first await of the pipeline, or to its return.
trigger_retraining(t, new_data, force) ==
    LET M == AfterInitialize
        decision == TriggerDecision(new_data, force)
    IN /\ pc[t] = "idle"
       /\ registry_loaded' = TRUE
       /\ model_registry' = M.reg
       /\ current_production_model' = M.cpm
       /\ staging_model' = M.sm
       /\ IF decision = "run"
          THEN /\ retraining_in_progress' = TRUE
               /\ pc' = [pc EXCEPT ![t] = "train"]
               /\ retrain_call' = [retrain_call EXCEPT ![t] =
                                       [new_data |-> new_data, force |-> force]]
               /\ UNCHANGED ret
          ELSE \* the handler of lines 627-630 clears the guard
               /\ retraining_in_progress' =
                      IF decision = "raised" THEN FALSE ELSE retraining_in_progress
               /\ ret' = Returned("retrain", FALSE, "false", decision)
               /\ UNCHANGED <<pc, retrain_call>>
       /\ performance_history' = HistoryAfterInitialize
       /\ UNCHANGED <<health_scoring_service, performance_dir, backups,
                      retraining_config, model_dir, checksum,
                      alert_vars, persisted, now,
                      deprecation_order, retrain_model>>

\* A trigger_retraining without its finally clause.
PipelineReturns_keeps_guard(t, success) ==
    /\ pc' = [pc EXCEPT ![t] = "idle"]
    /\ retrain_model' = [retrain_model EXCEPT ![t] = None]
    /\ retrain_call' = [retrain_call EXCEPT ![t] = None]
    /\ UNCHANGED retraining_in_progress
    /\ ret' = IF success THEN Returned("retrain", FALSE, "ok", "none")
               ELSE Returned("retrain", FALSE, "false", "pipeline_failed")

\* _execute_retraining returns success to trigger_retraining, whose finally
\* clause clears the guard.
PipelineReturns(t, success) ==
    /\ pc' = [pc EXCEPT ![t] = "idle"]
    /\ retrain_model' = [retrain_model EXCEPT ![t] = None]
    /\ retrain_call' = [retrain_call EXCEPT ![t] = None]
    /\ retraining_in_progress' = FALSE
    /\ ret' = IF success THEN Returned("retrain", FALSE, "ok", "none")
               ELSE Returned("retrain", FALSE, "false", "pipeline_failed")

\* HealthScoringService.train_model raises on a new_data without get, and
\* on fewer than min_training_samples devices; otherwise it may still raise.
min_training_samples == 3

\* A train_model that may return whatever it is given.
TrainAnswers_unchecked(new_data) == BOOLEAN

TrainAnswers(new_data) ==
    IF new_data = None THEN {FALSE}
    ELSE IF new_data[1] < min_training_samples THEN {FALSE}
    ELSE BOOLEAN

\* retrain_service.train_model(new_data); trained: it returned, did not raise.
RetrainTrain(t, trained) ==
    /\ pc[t] = "train"
    /\ IF trained
       THEN /\ pc' = [pc EXCEPT ![t] = "create"]
            /\ UNCHANGED <<retraining_in_progress, retrain_model, retrain_call, ret>>
       ELSE PipelineReturns(t, FALSE)
    /\ UNCHANGED <<model_registry, current_production_model, staging_model,
                   health_scoring_service, registry_loaded,
                   performance_history, performance_dir, backups,
                   retraining_config, model_dir, checksum,
                   alert_vars, persisted, now,
                   deprecation_order>>

\* create_model_version(retrain_service, version_type="minor", ...)
RetrainCreate(t, stored) ==
    /\ pc[t] = "create"
    /\ CreateEffect("minor", stored)
    /\ IF stored
       THEN /\ pc' = [pc EXCEPT ![t] = "validate"]
            /\ retrain_model' = [retrain_model EXCEPT ![t] =
                   ModelId(NewVersion(AfterInitialize.reg, "minor"), now)]
            /\ UNCHANGED <<retraining_in_progress, retrain_call, ret>>
       ELSE PipelineReturns(t, FALSE)
    /\ UNCHANGED <<performance_history, performance_dir, backups,
                   retraining_config, model_dir, checksum, alert_vars>>

\* A pipeline that deploys whatever passed validation.
AutoDeploys_whatever_passed(validation_results) == validation_results.passed

\* Lines 1021-1022: the condition of the automatic deployment.
AutoDeploys(validation_results) ==
    validation_results.passed /\ validation_results.r2_score >= auto_deploy_threshold

\* Whether the pipeline of task t, given the answer to validate_model's load,
\* goes on to deploy_model.
RetrainDeploys(t, load) ==
    LET out == ValidateOutcome(AfterInitialize.reg, retrain_model[t], FALSE, load)
    IN out.res = "ok" /\ AutoDeploys(out.results)

\* validate_model(model_id), then deploy_model(model_id, BLUE_GREEN) when the
\* condition holds, then the return; deploy_model's result is not looked at,
\* so only a call that raises makes the pipeline return False.
RetrainValidate(t, load, deploy_load, copied) ==
    LET M == AfterInitialize
        model_id == retrain_model[t]
        out == ValidateOutcome(M.reg, model_id, FALSE, load)
        validated == [reg |-> out.reg, cpm |-> M.cpm, sm |-> M.sm]
        deploys == RetrainDeploys(t, load)
        dep == IF deploys
               THEN DeployOutcome(validated, health_scoring_service, model_id,
                                  "blue_green", FALSE, deploy_load)
               ELSE [res |-> "none", err |-> "none", reg |-> out.reg, cpm |-> M.cpm,
                     sm |-> M.sm, active |-> health_scoring_service]
    IN /\ pc[t] = "validate"
       /\ registry_loaded' = TRUE
       /\ model_registry' = dep.reg
       /\ current_production_model' = dep.cpm
       /\ staging_model' = dep.sm
       /\ health_scoring_service' = dep.active
       /\ deprecation_order' =
              DeprecationOrderAfter(deprecation_order, dep.reg,
                                    IF dep.res = "ok" THEN M.cpm ELSE None)
       /\ persisted' = IF dep.res = "ok"
                       THEN _save_model_registry(dep.reg, dep.cpm, dep.sm)
                       ELSE IF out.res = "ok"
                            THEN _save_model_registry(out.reg, M.cpm, M.sm)
                            ELSE persisted
       /\ PipelineReturns(t, out.res = "ok" /\ dep.res # "raised")
       /\ backups' = IF deploys
                   THEN BackupsAfter(validated, model_id, FALSE, copied)
                   ELSE backups
       /\ UNCHANGED <<performance_history, performance_dir, retraining_config,
                      model_dir, checksum, alert_vars, now>>

-----------------------------------------------------------------------------
(* The calls a client can make *)

\* An id no artifact carries.
UnknownId == <<0, 0, 0, 0>>

ModelIdInputs == Ids(AfterInitialize.reg) \cup {UnknownId}

\* The version strings tried: those of the catalogue, a version no artifact
\* has, a string with two parts only, and the empty string.
VersionStringInputs ==
    {VersionToString(AfterInitialize.reg[i].version) :
         i \in 1..Len(AfterInitialize.reg)}
    \cup {<<"9", "9", "9">>, <<"1", "0">>, <<"">>}

\* The values of new_data tried: None, no device, as many devices as
\* train_model needs, and as many as min_samples_required.
NewDataInputs == {None, <<0>>, <<min_training_samples>>, <<min_samples_required>>}

\* The artifacts a retraining run in flight is yet to create.
Reserved == Cardinality({t \in Tasks : pc[t] \in {"train", "create"}})

\* version_type is left at its default, "patch".
CreateCall ==
    /\ Len(AfterInitialize.reg) + Reserved < MaxModels
    /\ \E stored \in BOOLEAN : create_model_version("patch", stored)

ValidateCallWith(data, outcomes) ==
    \E id \in ModelIdInputs, with_data \in data :
    \E load \in AnswersIn(outcomes, id \in Ids(AfterInitialize.reg)) :
        validate_model(id, with_data, load)

ValidateCall == ValidateCallWith(BOOLEAN, LoadOutcomes)

\* What copytree does in the specifications that do not look at backup_root:
\* it fails, and backup_root stays as it is.
NoCopy == {FALSE}

DeployCallWith(strategies, forces, outcomes, copies) ==
    \E id \in ModelIdInputs, strategy \in strategies, force \in forces :
    \E load \in AnswersIn(outcomes, DeployLoads(AfterInitialize.reg, id, force)) :
    \E copied \in copies :
        deploy_model(id, strategy, force, load, copied)

DeployCall == DeployCallWith(DeploymentStrategy, BOOLEAN, LoadOutcomes, NoCopy)

RollbackCallWith(outcomes) ==
    \E tv \in VersionStringInputs \cup {None} :
    \E verify \in AnswersIn(outcomes, RollbackLoads(AfterInitialize, tv)) :
    \E reload \in AnswersIn(outcomes, _verify_model_loadable(verify)) :
        rollback_model(tv, verify, reload)

RollbackCall == RollbackCallWith(LoadOutcomes)

\* The observations tried: the placeholder r2 and a measured one below
\* performance_threshold; a drift below and one above drift_threshold.
MeasuredInputs == {None, <<performance_threshold - 5>>}

DriftInputs == {drift_threshold - 20, drift_threshold + 10}

\* The latencies tried, in milliseconds: the second is above the alert
\* level of _check_performance_alerts.
QuickLatency == {100}

LatencyInputs == {100, 6000}

MonitorCallOf(outcomes, latencies) ==
    /\ Len(performance_history) < MaxHistory
    /\ \E load \in AnswersIn(outcomes, MonitorLoads(AfterInitialize)) :
       \E measured \in MeasuredInputs, drift \in DriftInputs :
       \E latency_ms \in latencies :
           monitor_performance(load, measured, drift, latency_ms)

MonitorCallWith(outcomes) == MonitorCallOf(outcomes, QuickLatency)

MonitorCall == MonitorCallWith(LoadOutcomes)

Next == CreateCall \/ ValidateCall \/ DeployCall \/ RollbackCall

Spec == Init /\ [][Next]_vars

-----------------------------------------------------------------------------
(* The same registry when no caller ever passes force=True *)

DeployCallUnforced ==
    DeployCallWith(DeploymentStrategy, {FALSE}, LoadOutcomes, NoCopy)

NextNoForce == CreateCall \/ ValidateCall \/ DeployCallUnforced \/ RollbackCall

SpecNoForce == Init /\ [][NextNoForce]_vars

-----------------------------------------------------------------------------
(* The registry with room for MaxRollbackModels artifacts, in the runs in   *)
(* which every load finds its files, artifacts are validated against the   *)
(* synthetic proxy and deployed with the default strategy.                 *)

RollbackCreateCall ==
    /\ Len(AfterInitialize.reg) < MaxRollbackModels
    /\ create_model_version("patch", TRUE)

PlainValidateCall == ValidateCallWith({FALSE}, {"loaded"})

PlainDeployCall == DeployCallWith({"blue_green"}, BOOLEAN, {"loaded"}, NoCopy)

PlainRollbackCall == RollbackCallWith({"loaded"})

NextRollback ==
    \/ RollbackCreateCall \/ PlainValidateCall
    \/ PlainDeployCall \/ PlainRollbackCall

SpecRollback == Init /\ [][NextRollback]_vars

-----------------------------------------------------------------------------
(* The registry with trigger_retraining calls of the tasks in flight *)

TriggerCallBy(tasks) ==
    \E t \in tasks, new_data \in NewDataInputs, force \in BOOLEAN :
        /\ TriggerDecision(new_data, force) = "run"
               => Len(AfterInitialize.reg) < MaxModels
        /\ trigger_retraining(t, new_data, force)

TriggerCall == TriggerCallBy(Tasks)

TrainStep ==
    \E t \in Tasks :
        /\ pc[t] = "train"
        /\ \E trained \in TrainAnswers(retrain_call[t].new_data) :
               RetrainTrain(t, trained)

CreateStep == \E t \in Tasks, stored \in BOOLEAN : RetrainCreate(t, stored)

ValidateStep ==
    \E t \in Tasks :
        /\ pc[t] = "validate"
        /\ \E load \in LoadOutcomes :
           \E deploy_load \in Answers(RetrainDeploys(t, load)) :
           \E copied \in NoCopy :
               RetrainValidate(t, load, deploy_load, copied)

NextRetrain ==
    \/ CreateCall \/ PlainValidateCall \/ PlainDeployCall
    \/ TriggerCall \/ TrainStep \/ CreateStep \/ ValidateStep

SpecRetrain == Init /\ [][NextRetrain]_vars

\* The version bumps: artifacts are created with every version_type and taken
\* through validation, deployment and rollback with loadable files.
VersionCreateCall ==
    /\ Len(AfterInitialize.reg) < MaxVersionModels
    /\ \E version_type \in VersionTypes, stored \in BOOLEAN :
           create_model_version(version_type, stored)

NextVersions ==
    VersionCreateCall \/ PlainValidateCall \/ PlainDeployCall \/ PlainRollbackCall

SpecVersions == Init /\ [][NextVersions]_vars

\* The creations: artifacts are created with every version_type, and
\* validated.
AnyCreateCall ==
    /\ Len(AfterInitialize.reg) < MaxCreateModels
    /\ \E version_type \in VersionTypes, stored \in BOOLEAN :
           create_model_version(version_type, stored)

NextCreate == AnyCreateCall \/ PlainValidateCall

SpecCreate == Init /\ [][NextCreate]_vars

\* The retraining decision: a production model is created and deployed, its
\* performance is observed, and trigger_retraining is called by one task.
PlainMonitorCall == MonitorCallWith({"loaded"})

\* A client creates the first artifact only; the pipeline adds its own.
MonitorCreateCall ==
    /\ AfterInitialize.reg = <<>>
    /\ create_model_version("patch", TRUE)

ForcedDeployCall == DeployCallWith({"blue_green"}, {TRUE}, {"loaded"}, NoCopy)

NextMonitor ==
    \/ MonitorCreateCall \/ ForcedDeployCall \/ PlainMonitorCall
    \/ TriggerCallBy({1}) \/ TrainStep \/ CreateStep \/ ValidateStep

SpecMonitor == Init /\ [][NextMonitor]_vars

\* The observations: a production model is created and deployed, and its
\* performance is observed, quickly or slowly.
LatencyMonitorCall == MonitorCallOf(LoadOutcomes, LatencyInputs)

NextObserve == MonitorCreateCall \/ ForcedDeployCall \/ LatencyMonitorCall

SpecObserve == Init /\ [][NextObserve]_vars

\* Every operation: a first artifact created by a client and the later ones
\* by the retraining calls of one task, validations, forced deployments and
\* rollbacks without target on loadable files, and a first observation
\* (placeholder r2, high drift).
ObserveCall ==
    /\ performance_history = <<>>
    /\ \E load \in AnswersIn({"loaded"}, MonitorLoads(AfterInitialize)) :
           monitor_performance(load, None, drift_threshold + 10, 100)

LatestRollbackCall ==
    \E verify \in AnswersIn({"loaded"}, RollbackLoads(AfterInitialize, None)) :
    \E reload \in AnswersIn({"loaded"}, _verify_model_loadable(verify)) :
        rollback_model(None, verify, reload)

NextAll ==
    \/ MonitorCreateCall \/ PlainValidateCall \/ ForcedDeployCall
    \/ LatestRollbackCall \/ ObserveCall
    \/ TriggerCallBy({1}) \/ TrainStep \/ CreateStep \/ ValidateStep

SpecAll == Init /\ [][NextAll]_vars

-----------------------------------------------------------------------------
(* The calls as tasks of one event loop.  create_model_version,            *)
(* validate_model, deploy_model and rollback_model are coroutines of one   *)
(* thread: a call runs until it suspends, and another call runs only      *)
(* then.  Each call is                                                     *)
(* cut at its awaits; pc[t] names the await the call of task t stands at,  *)
(* retrain_model[t] holds its model_id local and retrain_call[t] its other *)
(* locals.  The clock ticks on its own.                                    *)

\* An event loop on which every await hands over to the other tasks.
AwaitSuspends_everywhere(position) == TRUE

\* Whether the coroutine awaited at position suspends.  The awaited
\* coroutines (save_models, _backup_current_production_model,
\* _execute_deployment, _load_model_service and load_models,
\* _verify_model_loadable, _save_model_registry, _load_production_model)
\* do file operations only and await no future: none suspends.
AwaitSuspends(position) == FALSE

\* The call of task t may take its next step.
MayRun(t) ==
    \A u \in Tasks \ {t} : pc[u] = "idle" \/ AwaitSuspends(pc[u])

\* The positions inside create_model_version, deploy_model, rollback_model.
WriterPositions ==
    {"create_store", "create_save", "deploy_execute", "deploy_save",
     "rollback_verify", "rollback_save", "rollback_reload"}

\* An instance built from the files of model_id by a load_models that
\* returned True without setting primary_model.
Unloaded(model_id) == Append(model_id, 0)

\* The call of task t goes on to position with these locals.
GoesOn(t, position, model_id, locals) ==
    /\ pc' = [pc EXCEPT ![t] = position]
    /\ retrain_model' = [retrain_model EXCEPT ![t] = model_id]
    /\ retrain_call' = [retrain_call EXCEPT ![t] = locals]
    /\ UNCHANGED ret

\* The call of task t returns or raises.
ComesBack(t, returned) ==
    /\ pc' = [pc EXCEPT ![t] = "idle"]
    /\ retrain_model' = [retrain_model EXCEPT ![t] = None]
    /\ retrain_call' = [retrain_call EXCEPT ![t] = None]
    /\ ret' = returned

\* initialize, as the first statement of a call.
Initialized ==
    /\ registry_loaded' = TRUE
    /\ model_registry' = AfterInitialize.reg
    /\ current_production_model' = AfterInitialize.cpm
    /\ staging_model' = AfterInitialize.sm

\* create_model_version up to await model_data.save_models(): the version
\* and the id are computed (lines 291-301).
CreateBegin(t, version_type) ==
    LET new_version == NewVersion(AfterInitialize.reg, version_type)
    IN /\ pc[t] = "idle"
       /\ MayRun(t)
       /\ Initialized
       /\ GoesOn(t, "create_store", ModelId(new_version, now),
                 [new_version |-> new_version])
       /\ performance_history' = HistoryAfterInitialize
       /\ UNCHANGED <<health_scoring_service, retraining_in_progress,
                      performance_dir, backups, retraining_config, model_dir,
                      checksum, alert_vars, persisted, now, deprecation_order>>

\* From save_models to await _save_model_registry(): the files are written
\* and the artifact, created now, is put into the registry under the id
\* computed before (lines 311-345); stored as in CreateEffect.
CreateStore(t, stored) ==
    LET artifact == [NewArtifact(retrain_call[t].new_version, now)
                        EXCEPT !.id = retrain_model[t]]
    IN /\ pc[t] = "create_store"
       /\ MayRun(t)
       /\ IF stored
          THEN /\ model_registry' = RegistryPut(model_registry, artifact)
               /\ GoesOn(t, "create_save", retrain_model[t], retrain_call[t])
          ELSE /\ UNCHANGED model_registry
               /\ ComesBack(t, Returned("create", FALSE, "raised", "store_failed"))
       /\ UNCHANGED <<current_production_model, staging_model,
                      health_scoring_service, registry_loaded,
                      retraining_in_progress, performance_history,
                      performance_dir, backups, retraining_config, model_dir,
                      checksum, alert_vars, persisted, now, deprecation_order>>

\* The write of the document that ends create_model_version, validate_model
\* and deploy_model (lines 346, 400, 457) and comes before the reload in
\* rollback_model (517).  written tells whether open and json.dump went
\* through; when they raise, _save_model_registry logs the error and returns
\* (lines 266-267), the document stays as it was and the call goes on.
SaveStep(t, position, next_position, returned, written) ==
    /\ pc[t] = position
    /\ MayRun(t)
    /\ persisted' = IF written
                    THEN _save_model_registry(model_registry,
                                              current_production_model,
                                              staging_model)
                    ELSE persisted
    /\ IF next_position = "idle"
       THEN ComesBack(t, returned)
       ELSE GoesOn(t, next_position, retrain_model[t], retrain_call[t])
    /\ UNCHANGED <<model_registry, current_production_model, staging_model,
                   health_scoring_service, registry_loaded,
                   retraining_in_progress, performance_history,
                   performance_dir, backups, retraining_config, model_dir,
                   checksum, alert_vars, now, deprecation_order>>

CreateSave(t, written) ==
    SaveStep(t, "create_save", "idle", Returned("create", FALSE, "ok", "none"),
             written)

\* validate_model up to await _load_model_service (lines 369-379).
ValidateBegin(t, model_id) ==
    /\ pc[t] = "idle"
    /\ MayRun(t)
    /\ Initialized
    /\ IF model_id \in Ids(AfterInitialize.reg)
       THEN GoesOn(t, "validate_load", model_id, None)
       ELSE /\ ret' = Returned("validate", FALSE, "raised", "not_found")
            /\ UNCHANGED <<pc, retrain_model, retrain_call>>
    /\ performance_history' = HistoryAfterInitialize
    /\ UNCHANGED <<health_scoring_service, retraining_in_progress,
                   performance_dir, backups, retraining_config, model_dir,
                   checksum, alert_vars, persisted, now, deprecation_order>>

\* From the load to await _save_model_registry() (lines 379-400): the
\* synthetic validation is run and the artifact gets its results and status.
ValidateRun(t, load) ==
    LET out == ValidateOutcome(model_registry, retrain_model[t], FALSE, load)
    IN /\ pc[t] = "validate_load"
       /\ MayRun(t)
       /\ model_registry' = out.reg
       /\ deprecation_order' =
              DeprecationOrderAfter(deprecation_order, out.reg, None)
       /\ IF out.res = "ok"
          THEN GoesOn(t, "validate_save", retrain_model[t], None)
          ELSE ComesBack(t, Returned("validate", FALSE, out.res, out.err))
       /\ UNCHANGED <<current_production_model, staging_model,
                      health_scoring_service, registry_loaded,
                      retraining_in_progress, performance_history,
                      performance_dir, backups, retraining_config, model_dir,
                      checksum, alert_vars, persisted, now>>

ValidateSave(t, written) ==
    SaveStep(t, "validate_save", "idle", Returned("validate", FALSE, "ok", "none"),
             written)

\* deploy_model up to its first await after the checks (lines 424-441).
DeployBegin(t, model_id, strategy, force, copied) ==
    LET M == AfterInitialize
    IN /\ pc[t] = "idle"
       /\ MayRun(t)
       /\ Initialized
       /\ IF DeployLoads(M.reg, model_id, force)
          THEN GoesOn(t, "deploy_execute", model_id,
                      [strategy |-> strategy, force |-> force])
          ELSE /\ ret' = Returned("deploy", force, "raised",
                              IF model_id \in Ids(M.reg) THEN "not_ready"
                              ELSE "not_found")
               /\ UNCHANGED <<pc, retrain_model, retrain_call>>
       /\ performance_history' = HistoryAfterInitialize
       /\ UNCHANGED <<health_scoring_service, retraining_in_progress,
                      performance_dir, retraining_config, model_dir, checksum,
                      alert_vars,
                      persisted, now, deprecation_order>>
       /\ backups' = BackupsAfter(M, model_id, force, copied)

\* From _execute_deployment to await _save_model_registry() (lines 441-456):
\* the candidate is loaded and, when it holds a model, made the active model,
\* the statuses and the pointer are written.
DeployExecute(t, load) ==
    LET model_id == retrain_model[t]
        d == _execute_deployment(model_id, retrain_call[t].strategy, load,
                                 health_scoring_service, staging_model)
    IN /\ pc[t] = "deploy_execute"
       /\ MayRun(t)
       /\ health_scoring_service' = d.active
       /\ staging_model' = d.sm
       /\ IF d.success
          THEN /\ model_registry' =
                      MarkDeployed(model_registry, current_production_model, model_id)
               /\ current_production_model' = model_id
               /\ deprecation_order' =
                      DeprecationOrderAfter(deprecation_order, model_registry',
                                            current_production_model)
               /\ GoesOn(t, "deploy_save", model_id, retrain_call[t])
          ELSE /\ UNCHANGED <<model_registry, current_production_model,
                              deprecation_order>>
               /\ ComesBack(t, Returned("deploy", retrain_call[t].force, "false",
                                        "deployment_failed"))
       /\ UNCHANGED <<registry_loaded, retraining_in_progress,
                      performance_history, performance_dir, backups,
                      retraining_config, model_dir, checksum,
                      alert_vars, persisted, now>>

DeploySave(t, written) ==
    /\ pc[t] = "deploy_save"
    /\ SaveStep(t, "deploy_save", "idle",
                Returned("deploy", retrain_call[t].force, "ok", "none"), written)

\* rollback_model up to await _verify_model_loadable (lines 480-499).
RollbackBegin(t, target_version) ==
    LET M == AfterInitialize
        target == ResolveTarget(M.reg, target_version)
    IN /\ pc[t] = "idle"
       /\ MayRun(t)
       /\ Initialized
       /\ IF M.cpm = None
          THEN /\ ret' = Returned("rollback", FALSE, "false", "no_production")
               /\ UNCHANGED <<pc, retrain_model, retrain_call>>
          ELSE IF target = None
          THEN /\ ret' = Returned("rollback", FALSE, "false", "not_found")
               /\ UNCHANGED <<pc, retrain_model, retrain_call>>
          ELSE GoesOn(t, "rollback_verify", target, None)
       /\ performance_history' = HistoryAfterInitialize
       /\ UNCHANGED <<health_scoring_service, retraining_in_progress,
                      performance_dir, backups, retraining_config, model_dir,
                      checksum, alert_vars, persisted, now, deprecation_order>>

\* From the verifying load to await _save_model_registry() (lines 499-517).
RollbackVerify(t, verify) ==
    LET target == retrain_model[t]
    IN /\ pc[t] = "rollback_verify"
       /\ MayRun(t)
       /\ IF _verify_model_loadable(verify)
          THEN /\ model_registry' =
                      MarkRolledBack(model_registry, current_production_model, target)
               /\ current_production_model' = target
               /\ deprecation_order' =
                      DeprecationOrderAfter(deprecation_order, model_registry',
                                            current_production_model)
               /\ GoesOn(t, "rollback_save", target, None)
          ELSE /\ UNCHANGED <<model_registry, current_production_model,
                              deprecation_order>>
               /\ ComesBack(t, Returned("rollback", FALSE, "false", "not_loadable"))
       /\ UNCHANGED <<staging_model, health_scoring_service, registry_loaded,
                      retraining_in_progress, performance_history,
                      performance_dir, backups, retraining_config, model_dir,
                      checksum, alert_vars, persisted, now>>

RollbackSave(t, written) ==
    SaveStep(t, "rollback_save", "rollback_reload", ret, written)

\* _load_production_model (lines 520, 856-859): what the load of the artifact
\* the pointer is at returns becomes the active model, unless it raised.
RollbackReload(t, reload) ==
    /\ pc[t] = "rollback_reload"
    /\ MayRun(t)
    /\ IF reload = "missing"
       THEN /\ UNCHANGED health_scoring_service
            /\ ComesBack(t, Returned("rollback", FALSE, "false", "reload_failed"))
       ELSE /\ health_scoring_service' =
                   IF reload = "unloaded"
                   THEN Unloaded(current_production_model)
                   ELSE current_production_model
            /\ ComesBack(t, Returned("rollback", FALSE, "ok", "none"))
    /\ UNCHANGED <<model_registry, current_production_model, staging_model,
                   registry_loaded, retraining_in_progress,
                   performance_history, performance_dir, backups,
                   retraining_config, model_dir, checksum,
                   alert_vars, persisted, now,
                   deprecation_order>>

\* An initialize that loads whatever the flag says.
FlagGuards_nothing(loaded) == FALSE

\* if not self.registry_loaded (line 217): whether initialize returns
\* without loading.
FlagGuards(loaded) == loaded

\* for model_id, artifact_data in ...: self.model_registry[model_id] = ...
RECURSIVE PutAll(_, _)
PutAll(reg, artifacts) ==
    IF artifacts = <<>> THEN reg
    ELSE PutAll(RegistryPut(reg, Head(artifacts)), Tail(artifacts))

\* A direct call of initialize up to await _load_model_registry (lines
\* 216-218); with the registry loaded it returns True at once.
InitializeBegin(t) ==
    /\ pc[t] = "idle"
    /\ MayRun(t)
    /\ IF FlagGuards(registry_loaded)
       THEN /\ ret' = Returned("initialize", FALSE, "ok", "none")
            /\ UNCHANGED <<pc, retrain_model, retrain_call>>
       ELSE GoesOn(t, "initialize_load", None, None)
    /\ UNCHANGED <<model_registry, current_production_model, staging_model,
                   health_scoring_service, registry_loaded,
                   retraining_in_progress, performance_history,
                   performance_dir, backups, retraining_config, model_dir,
                   checksum, alert_vars, persisted, now, deprecation_order>>

\* _load_model_registry and the rest of initialize (lines 218-221, 227-247):
\* the entries of the document are put into the registry, the pointers are
\* set, the observations of the files are appended to the history; an
\* exception on the way is logged, and the flag is set in every case.
InitializeLoad(t) ==
    LET loaded == _load_model_registry(persisted)
        whole == persisted.exists /\ ~LoadRaises(persisted)
    IN /\ pc[t] = "initialize_load"
       /\ MayRun(t)
       /\ model_registry' = PutAll(model_registry, loaded.reg)
       /\ current_production_model' =
              IF whole THEN loaded.cpm ELSE current_production_model
       /\ staging_model' = IF whole THEN loaded.sm ELSE staging_model
       /\ performance_history' =
              IF LoadRaises(persisted) THEN performance_history
              ELSE performance_history \o _load_performance_history(performance_dir)
       /\ registry_loaded' = TRUE
       /\ ComesBack(t, Returned("initialize", FALSE, "ok", "none"))
       /\ UNCHANGED <<health_scoring_service, retraining_in_progress,
                      performance_dir, backups, retraining_config, model_dir,
                      checksum, alert_vars, persisted, now, deprecation_order>>

\* The process ends and a new MLModelManager is constructed on the same
\* storage (lines 165-208); no call is in flight.
Restart ==
    /\ \A t \in Tasks : pc[t] = "idle"
    /\ registry_loaded
    /\ model_registry' = <<>>
    /\ current_production_model' = None
    /\ staging_model' = None
    /\ health_scoring_service' = None
    /\ registry_loaded' = FALSE
    /\ retraining_in_progress' = FALSE
    /\ performance_history' = <<>>
    /\ retraining_config' = [backup_before_deploy |-> TRUE]
    /\ UNCHANGED <<model_dir, checksum, alert_vars>>
    /\ deprecation_order' = <<>>
    /\ ret' = Returned("init", FALSE, "ok", "none")
    /\ UNCHANGED <<performance_dir, backups, persisted, now, pc, retrain_model,
                   retrain_call>>

\* The document is damaged while no manager holds it loaded: the file is
\* cut (json.load rejects it, k = 0) or the version of its k-th entry is
\* replaced by the empty string.
Damage(k) ==
    /\ \A t \in Tasks : pc[t] = "idle"
    /\ ~registry_loaded
    /\ persisted.exists /\ ~LoadRaises(persisted)
    /\ persisted' = IF k = 0 THEN [persisted EXCEPT !.readable = FALSE]
                    ELSE [persisted EXCEPT !.models[k].version = <<"">>]
    /\ UNCHANGED <<model_registry, current_production_model, staging_model,
                   health_scoring_service, registry_loaded,
                   retraining_in_progress, performance_history,
                   performance_dir, backups, retraining_config, model_dir,
                   checksum,
                   alert_vars, now, deprecation_order, pc, retrain_model,
                   retrain_call, ret>>

\* datetime.now() moves to the next second.
Tick ==
    /\ now < MaxClock
    /\ now' = now + 1
    /\ UNCHANGED <<model_registry, current_production_model, staging_model,
                   health_scoring_service, registry_loaded,
                   retraining_in_progress, performance_history,
                   performance_dir, backups, retraining_config, model_dir,
                   checksum,
                   alert_vars, persisted, deprecation_order, pc, retrain_model,
                   retrain_call, ret>>

\* The calls made by the tasks in tasks: creations with the default
\* version_type, validations without validation data, forced blue-green
\* deployments, rollbacks without target version; writes holds what the
\* writes of the document may answer.  Creating counts the artifacts the
\* calls in flight are yet to put into the registry.
Creating == Cardinality({t \in Tasks : pc[t] = "create_store"})

CreateStepsBy(tasks, writes) ==
    \/ /\ Len(AfterInitialize.reg) + Creating < MaxModels
       /\ \E t \in tasks : CreateBegin(t, "patch")
    \/ \E t \in tasks, stored \in BOOLEAN : CreateStore(t, stored)
    \/ \E t \in tasks, written \in writes : CreateSave(t, written)

ValidateStepsBy(tasks, writes) ==
    \/ \E t \in tasks, id \in ModelIdInputs : ValidateBegin(t, id)
    \/ \E t \in tasks, load \in LoadOutcomes : ValidateRun(t, load)
    \/ \E t \in tasks, written \in writes : ValidateSave(t, written)

DeployStepsBy(tasks, writes) ==
    \/ \E t \in tasks, id \in ModelIdInputs, copied \in NoCopy :
           DeployBegin(t, id, "blue_green", TRUE, copied)
    \/ \E t \in tasks, load \in LoadOutcomes : DeployExecute(t, load)
    \/ \E t \in tasks, written \in writes : DeploySave(t, written)

RollbackStepsBy(tasks, writes) ==
    \/ \E t \in tasks : RollbackBegin(t, None)
    \/ \E t \in tasks, verify \in LoadOutcomes : RollbackVerify(t, verify)
    \/ \E t \in tasks, written \in writes : RollbackSave(t, written)
    \/ \E t \in tasks, reload \in LoadOutcomes : RollbackReload(t, reload)

\* Two tasks whose writes of the document go through.
CreateSteps == CreateStepsBy(Tasks, {TRUE})

DeploySteps == DeployStepsBy(Tasks, {TRUE})

RollbackSteps == RollbackStepsBy(Tasks, {TRUE})

NextLoop == Tick \/ CreateSteps \/ DeploySteps \/ RollbackSteps

SpecLoop == Init /\ [][NextLoop]_vars

\* One task whose writes of the document go through or are refused.
NextDurable ==
    \/ CreateStepsBy({1}, BOOLEAN) \/ ValidateStepsBy({1}, BOOLEAN)
    \/ DeployStepsBy({1}, BOOLEAN) \/ RollbackStepsBy({1}, BOOLEAN)

SpecDurable == Init /\ [][NextDurable]_vars

\* A manager that is restarted on its storage.  Calls that are one action
\* run while no task stands inside a call.
Quiet == \A t \in Tasks : pc[t] = "idle" \/ AwaitSuspends(pc[t])

InitializeSteps ==
    \/ \E t \in Tasks : InitializeBegin(t)
    \/ \E t \in Tasks : InitializeLoad(t)

RestartCreateCall ==
    /\ Quiet
    /\ now <= MaxClock
    /\ Len(AfterInitialize.reg) < MaxModels
    /\ create_model_version("patch", TRUE)

RestartDeployCall == Quiet /\ ForcedDeployCall

RestartMonitorCall ==
    /\ Quiet
    /\ Len(HistoryAfterInitialize) < MaxHistory
    /\ \E load \in AnswersIn({"loaded"}, MonitorLoads(AfterInitialize)) :
           monitor_performance(load, None, drift_threshold - 20, 100)

DamageStep == \E k \in 0..Len(persisted.models) : Damage(k)

NextRestart ==
    \/ Tick \/ InitializeSteps \/ Restart \/ DamageStep
    \/ RestartCreateCall \/ RestartDeployCall \/ RestartMonitorCall

SpecRestart == Init /\ [][NextRestart]_vars

\* The retraining calls on one event loop: a client's call or a
\* trigger_retraining call starts while no call stands at an await that
\* handed over, and a pipeline goes on when the loop lets its task run.
QuietCreateCall == Quiet /\ CreateCall

QuietValidateCall == Quiet /\ PlainValidateCall

QuietDeployCall == Quiet /\ PlainDeployCall

QuietTriggerCall == \E t \in Tasks : MayRun(t) /\ TriggerCallBy({t})

QuietTrainStep ==
    \E t \in Tasks :
        /\ MayRun(t)
        /\ pc[t] = "train"
        /\ \E trained \in TrainAnswers(retrain_call[t].new_data) :
               RetrainTrain(t, trained)

QuietCreateStep ==
    \E t \in Tasks, stored \in BOOLEAN : MayRun(t) /\ RetrainCreate(t, stored)

QuietValidateStep ==
    \E t \in Tasks :
        /\ MayRun(t)
        /\ pc[t] = "validate"
        /\ \E load \in LoadOutcomes :
           \E deploy_load \in Answers(RetrainDeploys(t, load)) :
           \E copied \in NoCopy :
               RetrainValidate(t, load, deploy_load, copied)

NextPipeline ==
    \/ QuietCreateCall \/ QuietValidateCall \/ QuietDeployCall
    \/ QuietTriggerCall \/ QuietTrainStep \/ QuietCreateStep \/ QuietValidateStep

SpecPipeline == Init /\ [][NextPipeline]_vars

\* The configuration is loaded: backup_before_deploy of RetrainingConfig gets
\* the value configured.
Configure(flag) ==
    /\ retraining_config' = [retraining_config EXCEPT !.backup_before_deploy = flag]
    /\ UNCHANGED <<model_dir, checksum, alert_vars>>
    /\ UNCHANGED <<model_registry, current_production_model, staging_model,
                   health_scoring_service, registry_loaded, retraining_in_progress,
                   performance_history, performance_dir, backups, persisted, now,
                   deprecation_order, pc, retrain_model, retrain_call, ret>>

ConfigureStep == \E flag \in BOOLEAN : Configure(flag)

\* The backups: artifacts are created, validated and deployed with every
\* strategy and load outcome while the clock ticks; copytree goes through or
\* fails.
BackupCreateCall ==
    /\ Len(AfterInitialize.reg) < MaxModels
    /\ create_model_version("patch", TRUE)

BackupDeployCall ==
    DeployCallWith(DeploymentStrategy, BOOLEAN, LoadOutcomes, BOOLEAN)

NextBackup ==
    \/ Tick \/ ConfigureStep \/ BackupCreateCall \/ PlainValidateCall
    \/ BackupDeployCall

SpecBackup == Init /\ [][NextBackup]_vars

\* The same within one second, under the configuration the manager is
\* constructed with, with the default strategy, and without validations: a
\* deployment that is not forced raises.
CopyDeployCall == DeployCallWith({"blue_green"}, BOOLEAN, LoadOutcomes, BOOLEAN)

NextCopy == BackupCreateCall \/ CopyDeployCall

SpecCopy == Init /\ [][NextCopy]_vars

\* The version arithmetic: a manager is constructed on a document that holds
\* one artifact of any version with fields up to MaxVersionField, reads it
\* and creates artifacts with every version_type.
VersionInputs ==
    (0..MaxVersionField) \X (0..MaxVersionField) \X (0..MaxVersionField)

InitIncrements ==
    /\ NewManager
    /\ NewAlertService
    /\ performance_dir = <<>>
    /\ backups = {}
    /\ model_dir = StoredFiles
    /\ \E version \in VersionInputs :
           persisted = _save_model_registry(<<NewArtifact(version, 0)>>, None, None)

IncrementCreateCall ==
    /\ Len(AfterInitialize.reg) < MaxVersionModels
    /\ \E version_type \in VersionTypes : create_model_version(version_type, TRUE)

NextIncrements == IncrementCreateCall \/ InitializeSteps

SpecIncrements == InitIncrements /\ [][NextIncrements]_vars

\* The checksum: a model_dir of any files; files are added to it and removed
\* from it, and its checksum is computed (line 323).
InitChecksum ==
    /\ NewManager
    /\ NewAlertService
    /\ performance_dir = <<>>
    /\ backups = {}
    /\ model_dir \in Directories
    /\ persisted = NoDocument

DirectoryStep(dir, sum) ==
    /\ model_dir' = dir
    /\ checksum' = sum
    /\ UNCHANGED <<model_registry, current_production_model, staging_model,
                   health_scoring_service, registry_loaded, retraining_in_progress,
                   performance_history, performance_dir, backups,
                   retraining_config, persisted, now, deprecation_order, pc,
                   retrain_model, retrain_call, ret, alert_vars>>

AddFile(name, content) ==
    /\ name \notin DOMAIN model_dir
    /\ DirectoryStep([n \in DOMAIN model_dir \cup {name} |->
                          IF n = name THEN content ELSE model_dir[n]],
                     checksum)

RemoveFile(name) ==
    /\ name \in DOMAIN model_dir
    /\ DirectoryStep([n \in DOMAIN model_dir \ {name} |-> model_dir[n]], checksum)

CalculateChecksum == DirectoryStep(model_dir, _calculate_checksum(model_dir))

AddFileStep ==
    \E k \in 1..Len(FileNames), content \in FileContents :
        AddFile(FileNames[k], content)

RemoveFileStep == \E k \in 1..Len(FileNames) : RemoveFile(FileNames[k])

NextChecksum == AddFileStep \/ RemoveFileStep \/ CalculateChecksum

SpecChecksum == InitChecksum /\ [][NextChecksum]_vars

-----------------------------------------------------------------------------
(* PredictiveAlertService (alerts/predictive_alerts.py).  The clock counts  *)
(* hours here.  An alert is the record of the fields of MaintenanceAlert    *)
(* the service reads: id, device_id, alert_type, status, created_at; ids    *)
(* are numbered in the order uuid4 draws them.  Confidence and              *)
(* degradation rate are in hundredths.                                      *)

\* The hours the clock may reach.
MaxAlertClock == 5

\* generate_alerts_for_device is enabled while fewer ids have been drawn.
MaxAlerts == 2

PERFORMANCE_DEGRADATION == "performance_degradation"
BATTERY_MAINTENANCE == "battery_maintenance"
MECHANICAL_WEAR == "mechanical_wear"
THERMAL_STRESS == "thermal_stress"

AlertType ==
    {PERFORMANCE_DEGRADATION, "equipment_failure_risk", BATTERY_MAINTENANCE,
     MECHANICAL_WEAR, THERMAL_STRESS, "electrical_anomaly"}

ACTIVE == "active"
ACKNOWLEDGED == "acknowledged"
RESOLVED == "resolved"

\* MaintenanceAlert(device_id=..., alert_type=...): id from uuid4, status
\* ACTIVE and created_at from the clock by default.
MaintenanceAlert(id, device_id, alert_type, created_at) ==
    [id |-> id, device_id |-> device_id, alert_type |-> alert_type,
     status |-> ACTIVE, created_at |-> created_at]

\* Don't generate duplicate alerts within 4 hours.
duplicate_window_hours == 4

\* f"{device_id}_{alert_type.value}"
suppression_key(device_id, alert_type) == <<device_id, "_", alert_type>>

\* A decision that does not look at suppression_rules.
_should_generate_alert_unsuppressed(active, rules, t, alert) ==
    ~\E id \in DOMAIN active :
         /\ active[id].device_id = alert.device_id
         /\ active[id].alert_type = alert.alert_type
         /\ active[id].status = ACTIVE
         /\ alert.created_at - active[id].created_at < duplicate_window_hours

\* _should_generate_alert, at clock t.
_should_generate_alert(active, rules, t, alert) ==
    LET key == suppression_key(alert.device_id, alert.alert_type)
    IN /\ ~\E id \in DOMAIN active :
              /\ active[id].device_id = alert.device_id
              /\ active[id].alert_type = alert.alert_type
              /\ active[id].status = ACTIVE
              /\ alert.created_at - active[id].created_at < duplicate_window_hours
       /\ ~(key \in DOMAIN rules /\ rules[key].suppressed_until > t)

\* The thresholds of _create_degradation_alert and
\* _check_specific_maintenance_conditions.
degradation_confidence == 30

battery_level_limit == 20

battery_confidence == 50

temperature_limit == 80

thermal_degradation_rate == 0 - 50

vibration_limit == 300

wear_confidence == 40

\* dict[key] = value on a dict kept as a function.
DictPut(dict, key, value) ==
    [k \in DOMAIN dict \cup {key} |-> IF k = key THEN value ELSE dict[k]]

\* del dict[key]
DictDel(dict, key) == [k \in DOMAIN dict \ {key} |-> dict[k]]

\* Whether _create_degradation_alert is called and returns an alert.
CreatesDegradationAlert(trend_analysis) ==
    /\ trend_analysis.trend_direction = "degrading"
    /\ trend_analysis.confidence >= degradation_confidence

\* The alert types _check_specific_maintenance_conditions makes an alert
\* of, in the order in which it appends them.
SpecificConditions(current_metrics, trend_analysis) ==
    AppendIf(/\ current_metrics.battery_level < battery_level_limit
             /\ trend_analysis.confidence > battery_confidence,
             BATTERY_MAINTENANCE)
    \o AppendIf(/\ current_metrics.temperature_max > temperature_limit
                /\ trend_analysis.degradation_rate < thermal_degradation_rate,
                THERMAL_STRESS)
    \o AppendIf(/\ current_metrics.vibration_std > vibration_limit
                /\ trend_analysis.confidence > wear_confidence,
                MECHANICAL_WEAR)

\* _check_specific_maintenance_conditions: the alerts, the first of them
\* with the id numbered first.
_check_specific_maintenance_conditions(first, t, device_id, current_metrics, trend_analysis) ==
    LET types == SpecificConditions(current_metrics, trend_analysis)
    IN [k \in 1..Len(types) |->
            MaintenanceAlert(first + k - 1, device_id, types[k], t)]

\* generate_alerts_for_device: the list returned, active_alerts afterwards
\* and the number of ids drawn.  trend_analysis is what
\* TrendAnalyzer.analyze_health_trends makes of health_history.
GenerateOutcome(active, rules, drawn, t, device_id, trend_analysis, current_metrics) ==
    LET creates == CreatesDegradationAlert(trend_analysis)
        alert == MaintenanceAlert(drawn + 1, device_id, PERFORMANCE_DEGRADATION, t)
        accepted == creates /\ _should_generate_alert(active, rules, t, alert)
        after == IF creates THEN drawn + 1 ELSE drawn
        specific == _check_specific_maintenance_conditions(
                        after + 1, t, device_id, current_metrics, trend_analysis)
    IN [alerts |-> AppendIf(accepted, alert) \o specific,
        active |-> IF accepted THEN DictPut(active, alert.id, alert) ELSE active,
        uuids |-> after + Len(specific)]

manager_vars == <<model_registry, current_production_model, staging_model,
                  health_scoring_service, registry_loaded, retraining_in_progress,
                  performance_history, performance_dir, backups, retraining_config,
                  model_dir, checksum, persisted, deprecation_order, pc,
                  retrain_model, retrain_call>>

generate_alerts_for_device(device_id, trend_analysis, current_metrics) ==
    LET out == GenerateOutcome(active_alerts, suppression_rules, uuids, now,
                               device_id, trend_analysis, current_metrics)
    IN /\ active_alerts' = out.active
       /\ uuids' = out.uuids
       /\ generated' = out.alerts
       /\ ret' = Returned("generate", FALSE, "ok", "none")
       /\ UNCHANGED <<alert_history, suppression_rules, now, manager_vars>>

\* acknowledge_alert: True when the id is a key of active_alerts.
AcknowledgeOutcome(active, alert_id) ==
    IF alert_id \in DOMAIN active
    THEN [res |-> "ok", active |-> [active EXCEPT ![alert_id].status = ACKNOWLEDGED]]
    ELSE [res |-> "false", active |-> active]

acknowledge_alert(alert_id) ==
    LET out == AcknowledgeOutcome(active_alerts, alert_id)
    IN /\ active_alerts' = out.active
       /\ ret' = Returned("acknowledge", FALSE, out.res, "none")
       /\ UNCHANGED <<alert_history, suppression_rules, uuids, generated, now,
                      manager_vars>>

\* resolve_alert: the alert goes from active_alerts to the end of
\* alert_history with status RESOLVED.
ResolveOutcome(active, history, alert_id) ==
    IF alert_id \in DOMAIN active
    THEN [res |-> "ok",
          active |-> DictDel(active, alert_id),
          history |-> Append(history, [active[alert_id] EXCEPT !.status = RESOLVED])]
    ELSE [res |-> "false", active |-> active, history |-> history]

resolve_alert(alert_id) ==
    LET out == ResolveOutcome(active_alerts, alert_history, alert_id)
    IN /\ active_alerts' = out.active
       /\ alert_history' = out.history
       /\ ret' = Returned("resolve", FALSE, out.res, "none")
       /\ UNCHANGED <<suppression_rules, uuids, generated, now, manager_vars>>

\* suppress_alerts: the rule of the key is set to end suppress_hours from
\* the clock, replacing the rule the key had.  Of the rule, the field
\* suppressed_until is kept: nothing reads its created_at.
suppress_alerts(device_id, alert_type, suppress_hours) ==
    /\ suppression_rules' =
           DictPut(suppression_rules, suppression_key(device_id, alert_type),
                   [suppressed_until |-> now + suppress_hours])
    /\ ret' = Returned("suppress", FALSE, "ok", "none")
    /\ UNCHANGED <<active_alerts, alert_history, uuids, generated, now,
                   manager_vars>>

\* An hour passes.
HourPasses ==
    /\ now < MaxAlertClock
    /\ now' = now + 1
    /\ UNCHANGED <<manager_vars, ret, alert_vars>>

\* The devices, and what the calls are given: a trend without enough data,
\* a weak and a firm degradation, and a firm stable trend; the metrics of a
\* sound device and of one with a low battery, a hot one, a vibrating one.
DeviceIds == {"drill_1", "drill_2"}

TrendInputs ==
    {[trend_direction |-> "insufficient_data", degradation_rate |-> 0, confidence |-> 0],
     [trend_direction |-> "degrading", degradation_rate |-> 0 - 100, confidence |-> 20],
     [trend_direction |-> "degrading", degradation_rate |-> 0 - 100, confidence |-> 90],
     [trend_direction |-> "stable", degradation_rate |-> 0, confidence |-> 90]}

MetricsInputs ==
    {[battery_level |-> 100, temperature_max |-> 0, vibration_std |-> 0],
     [battery_level |-> 10, temperature_max |-> 0, vibration_std |-> 0],
     [battery_level |-> 100, temperature_max |-> 90, vibration_std |-> 0],
     [battery_level |-> 100, temperature_max |-> 0, vibration_std |-> 400]}

\* suppress_hours: a short window and the default.
SuppressHoursInputs == {2, 24}

SoundMetrics == [battery_level |-> 100, temperature_max |-> 0, vibration_std |-> 0]

GenerateCallOf(devices, trends, metrics) ==
    \E device_id \in devices, trend_analysis \in trends, current_metrics \in metrics :
        /\ GenerateOutcome(active_alerts, suppression_rules, uuids, now, device_id,
                           trend_analysis, current_metrics).uuids <= MaxAlerts
        /\ generate_alerts_for_device(device_id, trend_analysis, current_metrics)

AcknowledgeCall == \E alert_id \in 1..MaxAlerts : acknowledge_alert(alert_id)

ResolveCall == \E alert_id \in 1..MaxAlerts : resolve_alert(alert_id)

SuppressCallOf(devices, types, hours) ==
    \E device_id \in devices, alert_type \in types, suppress_hours \in hours :
        suppress_alerts(device_id, alert_type, suppress_hours)

\* De-duplication and suppression: degradation alerts of two devices are
\* generated and acknowledged, and those of the first suppressed, while the
\* hours pass.
DegradationGenerateCall == GenerateCallOf(DeviceIds, TrendInputs, {SoundMetrics})

DegradationSuppressCall ==
    SuppressCallOf({"drill_1"}, {PERFORMANCE_DEGRADATION}, SuppressHoursInputs)

NextSuppress ==
    \/ HourPasses \/ DegradationGenerateCall \/ AcknowledgeCall
    \/ DegradationSuppressCall

SpecSuppress == Init /\ [][NextSuppress]_vars

\* The life of the alerts of one device: alerts of every kind are generated,
\* acknowledged and resolved.
AnyGenerateCall == GenerateCallOf({"drill_1"}, TrendInputs, MetricsInputs)

NextAlerts == AnyGenerateCall \/ AcknowledgeCall \/ ResolveCall

SpecAlerts == Init /\ [][NextAlerts]_vars

-----------------------------------------------------------------------------
(* Properties *)

\* The positions of the artifacts of reg that have status st.
WithStatus(reg, st) == {i \in 1..Len(reg) : reg[i].status = st}

\* The registry part of what a call's outcome record out leaves is what the
\* call found (M, active).
LeavesRegistry(out, M, active) ==
    /\ out.reg = M.reg
    /\ out.cpm = M.cpm
    /\ out.active = active

\* C1: after any sequence of create, validate, deploy (any strategy, forced
\* or not) and rollback calls, at most one artifact has status PRODUCTION.
C1_AtMostOneProduction ==
    Cardinality(WithStatus(model_registry, PRODUCTION)) <= 1

\* A forced deploy has just taken production over from another artifact.
C1_Witness ==
    /\ ret = Returned("deploy", TRUE, "ok", "none")
    /\ Cardinality(WithStatus(model_registry, PRODUCTION)) = 1
    /\ Cardinality(WithStatus(model_registry, DEPRECATED)) = 1

\* C2: deploy_model without force on an artifact in TRAINING or FAILED
\* fails (it raises), whatever the strategy, and leaves every status, the
\* production pointer, the staging pointer and the active model as they were;
\* and every deploy call that raised left them and the document as they were.
C2_DeployRequiresValidation ==
    /\ [](\A id \in Ids(AfterInitialize.reg), strategy \in DeploymentStrategy,
             load \in LoadOutcomes \cup {"none"} :
            StatusOf(AfterInitialize.reg, id) \in {TRAINING, FAILED} =>
                LET out == DeployOutcome(AfterInitialize, health_scoring_service,
                                         id, strategy, FALSE, load)
                IN /\ out.res = "raised"
                   /\ LeavesRegistry(out, AfterInitialize, health_scoring_service)
                   /\ out.sm = AfterInitialize.sm)
    /\ [][ret'.op = "deploy" /\ ret'.res = "raised"
              => UNCHANGED <<registry_vars, persisted>>]_vars

\* An unforced deploy was refused as not ready where every artifact is in
\* TRAINING.
C2_Witness ==
    /\ ret = Returned("deploy", FALSE, "raised", "not_ready")
    /\ Len(model_registry) > 0
    /\ WithStatus(model_registry, TRAINING) = 1..Len(model_registry)

\* C3: a deploy that fails after its precondition check (the candidate's
\* files cannot be loaded, or the loaded instance reports no model) leaves
\* the active model, every status and both pointers as they were; and every
\* deploy call that returned False left them and the document as they were.
C3_FailedDeployKeepsActive ==
    /\ [](\A id \in Ids(AfterInitialize.reg), strategy \in DeploymentStrategy,
             force \in BOOLEAN, load \in LoadOutcomes :
            LET out == DeployOutcome(AfterInitialize, health_scoring_service,
                                     id, strategy, force, load)
            IN DeployLoads(AfterInitialize.reg, id, force) /\ out.res # "ok" =>
                   /\ load \in {"missing", "unloaded"}
                   /\ LeavesRegistry(out, AfterInitialize, health_scoring_service)
                   /\ out.sm = AfterInitialize.sm)
    /\ [][ret'.op = "deploy" /\ ret'.res = "false"
              => UNCHANGED <<registry_vars, persisted>>]_vars

\* A deploy returned False while a production model is active.
C3_Witness ==
    /\ ret.op = "deploy" /\ ret.res = "false"
    /\ current_production_model # None
    /\ health_scoring_service = current_production_model
    /\ StatusOf(model_registry, current_production_model) = PRODUCTION

C5_ValidationGate ==
    \A i \in WithStatus(model_registry, PRODUCTION) :
        model_registry[i].validation_results = "passed"

\* The artifacts of reg that carry the version the string spells.
Carrying(reg, version_str) ==
    {i \in 1..Len(reg) : VersionToString(reg[i].version) = version_str}

C7_MostRecentlyDeprecated ==
    LET M == AfterInitialize
    IN M.cpm # None /\ deprecation_order # <<>> =>
           ResolveTarget(M.reg, None) = deprecation_order[Len(deprecation_order)]

\* Whether the target version names nothing to roll back to: no artifact
\* carries the version it spells or, without a target, none is DEPRECATED.
ResolvesNothing(reg, target_version) ==
    IF target_version = None THEN WithStatus(reg, DEPRECATED) = {}
    ELSE Carrying(reg, target_version) = {}

C9_FailedRollbackLeavesRegistry ==
    [][ret'.op = "rollback" /\ ret'.res = "false"
           => UNCHANGED <<model_registry, current_production_model, persisted,
                          health_scoring_service>>]_vars

\* The tasks whose trigger_retraining call is in the pipeline.
Retraining == {t \in Tasks : InPipeline(t)}

\* C10: at no time are two retraining pipelines executing, the guard is set
\* exactly while one is, and a trigger_retraining call made while the guard
\* is set returns False having created no version and changed no status,
\* pointer, document or the guard.
C10_RetrainingMutualExclusion ==
    /\ [](Cardinality(Retraining) <= 1)
    /\ [](retraining_in_progress <=> Retraining # {})
    /\ [][ret'.op = "retrain" /\ pc' = pc /\ retraining_in_progress
              => /\ ret'.res = "false"
                 /\ UNCHANGED <<registry_vars, persisted, now,
                                retraining_in_progress>>]_vars

\* A call was turned away as busy while the other task's call is in the
\* pipeline, about to create its version.
C10_Witness ==
    /\ ret = Returned("retrain", FALSE, "false", "busy")
    /\ retraining_in_progress
    /\ \E t \in Tasks : pc[t] = "create"


\* C11: the retraining guard is always released, and only by its owner.  A
\* step in which a call leaves the pipeline (its trigger_retraining returns,
\* on success or on failure of any stage) ends with the guard False; a call
\* is rejected as busy only while some call is in the pipeline; and the guard
\* goes from True to False only in a step in which a call leaves the
\* pipeline, never in a step of a call that did not set it.
C11_GuardReleasedByOwner ==
    /\ [][\A t \in Tasks : InPipeline(t) /\ pc'[t] = "idle"
              => ~retraining_in_progress']_vars
    /\ [][ret'.op = "retrain" /\ ret'.err = "busy" /\ pc' = pc
              => Retraining # {}]_vars
    /\ [][retraining_in_progress /\ ~retraining_in_progress'
              => \E t \in Tasks : InPipeline(t) /\ pc'[t] = "idle"]_vars

\* A pipeline has failed, its call has returned False and the guard is free.
C11_Witness ==
    /\ ret = Returned("retrain", FALSE, "false", "pipeline_failed")
    /\ Retraining = {}
    /\ ~retraining_in_progress

\* The condition under which retraining is warranted for new_data, given the
\* observations made so far.
Warranted(new_data) ==
    /\ enabled
    /\ new_data # None
    /\ new_data[1] >= min_samples_required
    /\ performance_history # <<>>
    /\ LET recent == performance_history[Len(performance_history)]
       IN recent.r2_score < performance_threshold
          \/ recent.drift_score > drift_threshold

RunCompletes(t) ==
    /\ pc[t] = "validate"
    /\ pc'[t] = "idle"
    /\ ret' = Returned("retrain", FALSE, "ok", "none")

Catalogue(versions, statuses, production) ==
    /\ Len(model_registry) = Len(versions)
    /\ \A i \in 1..Len(versions) :
           /\ model_registry[i].version = versions[i]
           /\ model_registry[i].status = statuses[i]
    /\ current_production_model =
           IF production = 0 THEN None ELSE model_registry[production].id

\* C14: the end-to-end scenario.  On an empty registry create(patch) gives
\* 1.0.1 in TRAINING; a passing validation puts it in VALIDATION; a
\* blue-green deployment makes it PRODUCTION and the production pointer;
\* create(minor) gives 1.1.0 in TRAINING; once 1.1.0 is validated and
\* deployed, 1.0.1 is DEPRECATED and 1.1.0 PRODUCTION; a rollback without
\* target then makes 1.0.1 PRODUCTION and 1.1.0 DEPRECATED.
C14_EndToEndScenario ==
    /\ [][(Catalogue(<<>>, <<>>, 0) /\ create_model_version("patch", TRUE))
              => Catalogue(<<<<1, 0, 1>>>>, <<TRAINING>>, 0)']_vars
    /\ [][(/\ Catalogue(<<<<1, 0, 1>>>>, <<TRAINING>>, 0)
           /\ \E with_data \in BOOLEAN :
                  validate_model(model_registry[1].id, with_data, "loaded"))
              => Catalogue(<<<<1, 0, 1>>>>, <<VALIDATION>>, 0)']_vars
    /\ [][(/\ Catalogue(<<<<1, 0, 1>>>>, <<VALIDATION>>, 0)
           /\ deploy_model(model_registry[1].id, "blue_green", FALSE, "loaded", FALSE))
              => Catalogue(<<<<1, 0, 1>>>>, <<PRODUCTION>>, 1)']_vars
    /\ [][(/\ Catalogue(<<<<1, 0, 1>>>>, <<PRODUCTION>>, 1)
           /\ create_model_version("minor", TRUE))
              => Catalogue(<<<<1, 0, 1>>, <<1, 1, 0>>>>,
                           <<PRODUCTION, TRAINING>>, 1)']_vars
    /\ [][(/\ Catalogue(<<<<1, 0, 1>>, <<1, 1, 0>>>>, <<PRODUCTION, TRAINING>>, 1)
           /\ \E with_data \in BOOLEAN :
                  validate_model(model_registry[2].id, with_data, "loaded"))
              => Catalogue(<<<<1, 0, 1>>, <<1, 1, 0>>>>,
                           <<PRODUCTION, VALIDATION>>, 1)']_vars
    /\ [][(/\ Catalogue(<<<<1, 0, 1>>, <<1, 1, 0>>>>, <<PRODUCTION, VALIDATION>>, 1)
           /\ deploy_model(model_registry[2].id, "blue_green", FALSE, "loaded", FALSE))
              => Catalogue(<<<<1, 0, 1>>, <<1, 1, 0>>>>,
                           <<DEPRECATED, PRODUCTION>>, 2)']_vars
    /\ [][(/\ Catalogue(<<<<1, 0, 1>>, <<1, 1, 0>>>>, <<DEPRECATED, PRODUCTION>>, 2)
           /\ rollback_model(None, "loaded", "loaded"))
              => /\ Catalogue(<<<<1, 0, 1>>, <<1, 1, 0>>>>,
                              <<PRODUCTION, DEPRECATED>>, 1)'
                 /\ ret'.res = "ok"]_vars

\* The scenario has been played to its end.
C14_Witness ==
    /\ Catalogue(<<<<1, 0, 1>>, <<1, 1, 0>>>>, <<PRODUCTION, DEPRECATED>>, 1)
    /\ model_registry[1].validation_results = "passed"
    /\ model_registry[2].validation_results = "passed"
    /\ ret.op = "rollback"
    /\ ret.res = "ok"

\* The calls of create_model_version, deploy_model and rollback_model that
\* are between their first read of the registry and their last write of it
\* or of its document.
Writers == {t \in Tasks : pc[t] \in WriterPositions}

\* The step in which the deploy_model of task t writes the statuses and the
\* pointer.
DeployMarks(t) == pc[t] = "deploy_execute" /\ pc'[t] = "deploy_save"

Greatest(reg) ==
    LET key(v) == v[1] * 10000 + v[2] * 100 + v[3]
        versions == {reg[i].version : i \in 1..Len(reg)}
    IN IF reg = <<>> THEN <<1, 0, 0>>
       ELSE CHOOSE v \in versions : \A w \in versions : key(w) <= key(v)

\* The version a bump of version_type makes of v.
Bumped(v, version_type) ==
    CASE version_type = "major" -> <<v[1] + 1, 0, 0>>
      [] version_type = "minor" -> <<v[1], v[2] + 1, 0>>
      [] version_type = "patch" -> <<v[1], v[2], v[3] + 1>>

\* C17: create_model_version gives the new artifact the requested bump of
\* the greatest version in the catalogue (of 1.0.0 when the catalogue is
\* empty) and appends it with status TRAINING, leaving the other entries as
\* they were; and every artifact of the catalogue is found by the lookups of
\* validate_model and deploy_model under its id and by
\* _find_model_by_version under its version.
C17_CreateVersion ==
    /\ [](\A version_type \in VersionTypes :
              NewVersion(model_registry, version_type)
                  = Bumped(Greatest(model_registry), version_type))
    /\ [][Len(model_registry') > Len(model_registry) =>
              LET new == model_registry'[Len(model_registry')]
              IN /\ \E version_type \in VersionTypes :
                        new.version = Bumped(Greatest(model_registry), version_type)
                 /\ new.status = TRAINING
                 /\ new.id \notin Ids(model_registry)
                 /\ SubSeq(model_registry', 1, Len(model_registry)) = model_registry
                 /\ ret' = Returned("create", FALSE, "ok", "none")]_vars
    /\ [](\A i \in 1..Len(model_registry) :
              LET art == model_registry[i]
              IN /\ ValidateOutcome(model_registry, art.id, FALSE, "loaded").res = "ok"
                 /\ DeployOutcome(AfterInitialize, health_scoring_service, art.id,
                                  "blue_green", TRUE, "loaded").res = "ok"
                 /\ _find_model_by_version(model_registry,
                                           VersionToString(art.version)) = art.id)

\* A third artifact has been created by a minor bump of the greatest version
\* of a catalogue of two.
C17_Witness ==
    /\ ret = Returned("create", FALSE, "ok", "none")
    /\ Len(model_registry) = 3
    /\ model_registry[1].version = <<1, 0, 1>>
    /\ model_registry[2].version = <<2, 0, 0>>
    /\ model_registry[3].version = <<2, 1, 0>>
    /\ model_registry[3].status = TRAINING

\* The step in which the create_model_version of task t puts its artifact
\* into the registry.
CreateInserts(t) == pc[t] = "create_store" /\ pc'[t] = "create_save"

Kept(reg, after) ==
    /\ Len(after) >= Len(reg)
    /\ \A i \in 1..Len(reg) :
           /\ after[i].id = reg[i].id
           /\ after[i].version = reg[i].version
           /\ after[i].created_at = reg[i].created_at

\* C19: no artifact is ever deleted.  Every step of create_model_version,
\* validate_model, deploy_model, rollback_model, monitor_performance and
\* trigger_retraining keeps every artifact of the catalogue, with its id,
\* version and creation time; and so does, in every reachable state, every
\* validation, deployment and rollback whatever its arguments and whatever
\* the loads answer.
C19_NoDeletion ==
    /\ [][Kept(model_registry, model_registry')]_vars
    /\ [](\A id \in ModelIdInputs, load \in LoadOutcomes :
              /\ \A with_data \in BOOLEAN :
                     Kept(model_registry,
                          ValidateOutcome(model_registry, id, with_data, load).reg)
              /\ \A strategy \in DeploymentStrategy, force \in BOOLEAN :
                     Kept(model_registry,
                          DeployOutcome(AfterInitialize, health_scoring_service, id,
                                        strategy, force, load).reg))
    /\ [](\A tv \in VersionStringInputs \cup {None}, verify, reload \in LoadOutcomes :
              Kept(model_registry,
                   RollbackOutcome(AfterInitialize, health_scoring_service, tv,
                                   verify, reload).reg))

\* After a creation, a validation, a deployment, an observation, a
\* retraining run and a rollback the catalogue holds the client's artifact
\* and the one the run created.
C19_Witness ==
    /\ ret.op = "rollback"
    /\ ret.res = "ok"
    /\ performance_history # <<>>
    /\ Len(model_registry) = 2
    /\ model_registry[1].version = <<1, 0, 1>>
    /\ model_registry[2].version = <<1, 1, 0>>
    /\ model_registry[2].validation_results = "passed"
    /\ WithStatus(model_registry, DEPRECATED) # {}

\* Every task is between calls.
NoCallInFlight == \A t \in Tasks : pc[t] = "idle"

\* The registry a new manager has once it initialized from the document.
FreshRegistry == _load_model_registry(persisted)

\* C20: durable mirror.  Whenever no call of create_model_version,
\* validate_model, deploy_model or rollback_model is in flight, a new manager
\* that initializes from the registry document gets the catalogue of the
\* manager that wrote it (the same artifacts in the same order, with their
\* ids, versions, statuses and creation times) and the same
\* current_production_model and staging_model.
C20_DurableMirror ==
    NoCallInFlight =>
        /\ FreshRegistry.reg = model_registry
        /\ FreshRegistry.cpm = current_production_model
        /\ FreshRegistry.sm = staging_model

\* What a manager holds in memory.
memory_vars == <<model_registry, current_production_model, staging_model,
                 health_scoring_service, registry_loaded, retraining_in_progress,
                 performance_history>>

\* The observations initialize finds in the files, none when the load of the
\* document raises before.
StoredHistory ==
    IF LoadRaises(persisted) THEN <<>>
    ELSE _load_performance_history(performance_dir)

C22_InitializeFailsSoft ==
    [][\A t \in Tasks :
           (InitializeLoad(t) /\ LoadRaises(persisted)) =>
               /\ ret'.op = "initialize" /\ ret'.res = "ok"
               /\ registry_loaded'
               /\ model_registry' = <<>>
               /\ current_production_model' = None
               /\ staging_model' = None]_vars

\* What validate_model has to leave of the catalogue reg when the
\* validation of model_id gave results: the artifact carries the results and
\* is VALIDATION when they say passed and FAILED otherwise, every other
\* artifact is as it was.
Recorded(reg, after, model_id, results) ==
    /\ Len(after) = Len(reg)
    /\ \A i \in 1..Len(reg) :
           IF reg[i].id = model_id
           THEN after[i] =
                    [reg[i] EXCEPT
                        !.validation_results =
                            IF results.passed THEN "passed" ELSE "failed",
                        !.status = IF results.passed THEN VALIDATION ELSE FAILED]
           ELSE after[i] = reg[i]

\* C23: validate_model on a known artifact whose load succeeds returns the
\* results of the validation run, records them in the artifact and sets its
\* status to VALIDATION when they say passed and to FAILED otherwise,
\* leaving every other artifact as it was, and the document is rewritten;
\* on an unknown id and on an artifact whose load fails it raises, and no
\* status, recorded result, pointer, active model or document has changed.
C23_ValidateRecords ==
    /\ [](\A id \in ModelIdInputs, with_data \in BOOLEAN, load \in LoadOutcomes :
             LET M == AfterInitialize
                 out == ValidateOutcome(M.reg, id, with_data, load)
             IN IF id \in Ids(M.reg) /\ load # "missing"
                THEN /\ out.res = "ok"
                     /\ out.results = ValidationResults(with_data)
                     /\ Recorded(M.reg, out.reg, id, out.results)
                     /\ out.results.passed => StatusOf(out.reg, id) = VALIDATION
                ELSE /\ out.res = "raised"
                     /\ out.err = IF id \in Ids(M.reg) THEN "load_failed"
                                  ELSE "not_found"
                     /\ out.reg = M.reg)
    /\ [][ret'.op = "validate" =>
              LET M == AfterInitialize
              IN /\ current_production_model' = M.cpm
                 /\ staging_model' = M.sm
                 /\ UNCHANGED health_scoring_service
                 /\ IF ret'.res = "ok"
                    THEN /\ \E id \in Ids(M.reg), with_data \in BOOLEAN :
                                Recorded(M.reg, model_registry', id,
                                         ValidationResults(with_data))
                         /\ persisted' =
                                RegistryDocument(model_registry', M.cpm, M.sm)
                    ELSE /\ ret'.res = "raised"
                         /\ model_registry' = M.reg
                         /\ UNCHANGED persisted]_vars

\* A validation has passed on the second of two artifacts and has left the
\* first, never validated, as it was created.
C23_Witness ==
    /\ Len(model_registry) = 2
    /\ ret.op = "validate"
    /\ ret.res = "ok"
    /\ model_registry[1].status = TRAINING
    /\ model_registry[1].validation_results = "none"
    /\ model_registry[2].status = VALIDATION
    /\ model_registry[2].validation_results = "passed"

\* The kinds of error of the propagation policy, by what went wrong: an
\* unknown id or version, an ineligible status or no production model, an
\* artifact that could not be loaded.
ErrorKind(err) ==
    IF err = "not_found" THEN "NotFound"
    ELSE IF err \in {"not_ready", "no_production"} THEN "PreconditionFailed"
    ELSE IF err \in {"deployment_failed", "not_loadable", "reload_failed"}
    THEN "LoadFailure"
    ELSE "none"

\* What the caller of the call that returned last holds: the value returned,
\* or the exception with its message.
CallerSees(returned) ==
    IF returned.res = "raised" THEN <<"raised", returned.err>> ELSE <<returned.res>>

\* C24: typed errors.  A deploy_model or rollback_model that ended on an
\* unknown id or version, on an ineligible status or a missing production
\* model, or on an artifact that could not be loaded, has raised an error
\* that tells which of the three it was; none has returned a bare False.
C24_TypedErrors ==
    (ret.op \in {"deploy", "rollback"} /\ ErrorKind(ret.err) # "none") =>
        /\ CallerSees(ret) # <<"false">>
        /\ ErrorKind(CallerSees(ret)[2]) = ErrorKind(ret.err)

\* A deploy_model call in which copytree goes through, past the checks of
\* lines 424-434.
DeploysCopying(id, strategy, force, load) ==
    /\ DeployLoads(AfterInitialize.reg, id, force)
    /\ deploy_model(id, strategy, force, load, TRUE)

\* C25: deploy_model leaves a backup of the production artifact's directory
\* when there is a production artifact and backup_before_deploy of
\* RetrainingConfig is set, and leaves backup_root as it is otherwise.
C25_BackupByPolicy ==
    [][\A id \in ModelIdInputs, strategy \in DeploymentStrategy, force \in BOOLEAN,
          load \in LoadOutcomes :
           DeploysCopying(id, strategy, force, load)
               => IF /\ AfterInitialize.cpm # None
                     /\ retraining_config.backup_before_deploy
                  THEN <<AfterInitialize.cpm, now>> \in backups'
                  ELSE backups' = backups]_vars

\* C26: whether copytree goes through or fails, deploy_model returns what
\* the registry, the candidate, force and the load of the candidate decide,
\* and leaves the statuses, the pointers and the active model they decide.
C26_BackupNeverBlocks ==
    [][\A id \in ModelIdInputs, force \in BOOLEAN, load \in LoadOutcomes,
          copied \in BOOLEAN :
           (/\ ret'.op = "deploy"
            /\ deploy_model(id, "blue_green", force, load, copied))
               => LET out == DeployOutcome(AfterInitialize, health_scoring_service,
                                           id, "blue_green", force, load)
                  IN /\ ret' = Returned("deploy", force, out.res, out.err)
                     /\ model_registry' = out.reg
                     /\ current_production_model' = out.cpm
                     /\ staging_model' = out.sm
                     /\ health_scoring_service' = out.active]_vars

\* A deployment has replaced a production artifact of which no backup could
\* be written.
C26_Witness ==
    /\ ret.op = "deploy"
    /\ ret.res = "ok"
    /\ backups = {}
    /\ WithStatus(model_registry, DEPRECATED) # {}

\* C27: in every state, for every candidate, force flag and load outcome,
\* deploy_model with canary, rolling or immediate returns what it returns
\* with blue_green and leaves the same statuses, pointers and active model.
C27_StrategyEquivalence ==
    \A id \in ModelIdInputs, strategy \in DeploymentStrategy, force \in BOOLEAN,
       load \in LoadOutcomes :
        DeployOutcome(AfterInitialize, health_scoring_service, id, strategy, force,
                      load)
            = DeployOutcome(AfterInitialize, health_scoring_service, id,
                            "blue_green", force, load)

\* A deployment has been made, and a canary deployment of another artifact
\* would replace the production artifact, while one whose candidate holds no
\* model would fail.
C27_Witness ==
    /\ ret.op = "deploy"
    /\ current_production_model # None
    /\ \E id \in Ids(model_registry) \ {current_production_model} :
           /\ DeployOutcome(AfterInitialize, health_scoring_service, id, "canary",
                            TRUE, "loaded").cpm = id
           /\ DeployOutcome(AfterInitialize, health_scoring_service, id,
                            "immediate", TRUE, "unloaded").res = "false"

\* C28: a monitor_performance call that returns its metrics appends one
\* observation to performance_history and adds one file to performance_dir,
\* leaving every file that was there as it was.
C28_OneRecordPerObservation ==
    [][(RestartMonitorCall /\ ret'.res = "ok")
           => /\ Len(performance_history') = Len(HistoryAfterInitialize) + 1
              /\ SubSeq(performance_history', 1, Len(HistoryAfterInitialize))
                     = HistoryAfterInitialize
              /\ Cardinality(DOMAIN performance_dir')
                     = Cardinality(DOMAIN performance_dir) + 1
              /\ \A name \in DOMAIN performance_dir :
                     /\ name \in DOMAIN performance_dir'
                     /\ performance_dir'[name] = performance_dir[name]]_vars

\* What the claim says of the three bumps of v, of the order and of the
\* string form of v.
IncrementsOf(v) ==
    /\ VersionLess(v, increment_patch(v))
    /\ increment_patch(v)[1] = v[1]
    /\ increment_patch(v)[2] = v[2]
    /\ VersionLess(v, increment_minor(v))
    /\ increment_minor(v)[1] = v[1]
    /\ increment_minor(v)[3] = 0
    /\ VersionLess(v, increment_major(v))
    /\ increment_major(v)[2] = 0
    /\ increment_major(v)[3] = 0
    /\ from_string(VersionToString(v)) = v

\* The order the words "lexicographic on (major, minor, patch)" describe.
LexLess(a, b) ==
    \E k \in 1..3 : a[k] < b[k] /\ \A j \in 1..(k - 1) : a[j] = b[j]

\* C29: for every version of the catalogue, increment_patch gives a greater
\* version with the same major and minor, increment_minor a greater one with
\* the same major and patch 0, increment_major a greater one with minor and
\* patch 0, and from_string of its string form gives the version back; the
\* order by which _get_latest_version takes the latest is lexicographic on
\* (major, minor, patch); and the version create_model_version gives a new
\* artifact is greater than every version the catalogue held.
C29_VersionIncrements ==
    /\ [](LET reg == AfterInitialize.reg
          IN /\ \A i \in 1..Len(reg) : IncrementsOf(reg[i].version)
             /\ \A i, j \in 1..Len(reg) :
                    VersionLess(reg[i].version, reg[j].version)
                        <=> LexLess(reg[i].version, reg[j].version)
             /\ \A i \in 1..Len(reg) :
                    ~LexLess(_get_latest_version(reg), reg[i].version))
    /\ [][Len(model_registry') = Len(AfterInitialize.reg) + 1
              => \A i \in 1..Len(AfterInitialize.reg) :
                     LexLess(AfterInitialize.reg[i].version,
                             model_registry'[Len(model_registry')].version)]_vars

\* A major bump has been made of a version whose minor and patch are not 0.
C29_Witness ==
    /\ ret = Returned("create", FALSE, "ok", "none")
    /\ Len(model_registry) = 2
    /\ model_registry[1].version = <<1, 2, 2>>
    /\ model_registry[2].version = <<2, 0, 0>>

\* C30: computing the checksum of a directory whose checksum is at hand
\* gives that checksum again, and the checksum of the directory after a file
\* has been added to it or removed from it is another one.
C30_Checksum ==
    /\ [][(CalculateChecksum /\ checksum = _calculate_checksum(model_dir))
              => checksum' = checksum]_vars
    /\ [][(AddFileStep \/ RemoveFileStep)
              => _calculate_checksum(model_dir') # _calculate_checksum(model_dir)]_vars

\* C31: when staging_model is set, the artifact it names does not have
\* status PRODUCTION and is not the one current_production_model names.
C31_StagingNotPromoted ==
    staging_model # None
        => /\ staging_model # current_production_model
           /\ \A i \in 1..Len(model_registry) :
                  model_registry[i].id = staging_model
                      => model_registry[i].status # PRODUCTION

\* C33: the pipeline of a trigger_retraining call whose new_data holds fewer
\* than min_training_samples samples does not get past train_model; and
\* when train_model raises, trigger_retraining returns False, the guard is
\* cleared, and the catalogue, its document, both pointers and the active
\* model are as the step found them.
C33_TrainingFailure ==
    /\ [][\A t \in Tasks :
              (/\ pc[t] = "train"
               /\ \/ retrain_call[t].new_data = None
                  \/ retrain_call[t].new_data[1] < min_training_samples)
                  => pc'[t] \in {"train", "idle"}]_vars
    /\ [][\A t \in Tasks :
              (pc[t] = "train" /\ pc'[t] = "idle")
                  => /\ ret' = Returned("retrain", FALSE, "false", "pipeline_failed")
                     /\ ~retraining_in_progress'
                     /\ UNCHANGED <<model_registry, current_production_model,
                                    staging_model, health_scoring_service,
                                    persisted>>]_vars

\* A retraining run has failed on a catalogue whose one artifact is in
\* production.
C33_Witness ==
    /\ ret = Returned("retrain", FALSE, "false", "pipeline_failed")
    /\ Len(model_registry) = 1
    /\ model_registry[1].status = PRODUCTION
    /\ current_production_model = model_registry[1].id
    /\ health_scoring_service = model_registry[1].id
    /\ \A t \in Tasks : pc[t] = "idle"

\* C34: current_production_model is set exactly when some artifact has
\* status PRODUCTION, and then the artifact it names is the one that has it.
C34_PointerAndStatusAgree ==
    /\ current_production_model # None
           <=> WithStatus(model_registry, PRODUCTION) # {}
    /\ \A i \in WithStatus(model_registry, PRODUCTION) :
           model_registry[i].id = current_production_model

\* C35: while no call is in progress and current_production_model is set,
\* the active model is an instance loaded from the artifact it names.
C35_ActiveModelIsProduction ==
    (/\ \A t \in Tasks : pc[t] = "idle"
     /\ current_production_model # None)
        => health_scoring_service = current_production_model

\* C36: no two artifacts of the catalogue have the same version, so
\* _find_model_by_version finds every artifact under its own version; the
\* version create_model_version would give a new artifact, for every
\* version_type, is greater than every version of the catalogue; and the
\* artifact a create_model_version call adds has a version greater than
\* every version the catalogue held.
C36_VersionsUnique ==
    /\ [](\A i, j \in 1..Len(model_registry) :
              model_registry[i].version = model_registry[j].version => i = j)
    /\ [](\A i \in 1..Len(model_registry) :
              /\ _find_model_by_version(
                     model_registry, VersionToString(model_registry[i].version))
                         = model_registry[i].id
              /\ \A version_type \in VersionTypes :
                     VersionLess(model_registry[i].version,
                                 NewVersion(model_registry, version_type)))
    /\ [][Len(model_registry') > Len(model_registry)
              => \A i \in 1..Len(model_registry) :
                     VersionLess(model_registry[i].version,
                                 model_registry'[Len(model_registry')].version)]_vars

\* A patch bump has been made after a minor and a major bump: the catalogue
\* holds three versions in increasing order.
C36_Witness ==
    /\ ret = Returned("create", FALSE, "ok", "none")
    /\ Len(model_registry) = 3
    /\ model_registry[1].version = <<1, 1, 0>>
    /\ model_registry[2].version = <<2, 0, 0>>
    /\ model_registry[3].version = <<2, 0, 1>>

\* C37: no artifact of the catalogue has status STAGING, and an artifact a
\* deploy_model call without force would promote, whatever the strategy, has
\* status VALIDATION.
C37_StagingUnreachable ==
    /\ \A i \in 1..Len(model_registry) : model_registry[i].status # STAGING
    /\ \A i \in 1..Len(model_registry), strategy \in DeploymentStrategy :
           DeployOutcome(AfterInitialize, health_scoring_service,
                         model_registry[i].id, strategy, FALSE, "loaded").res = "ok"
               => model_registry[i].status = VALIDATION

\* A retraining has returned True: the catalogue holds the PRODUCTION
\* artifact and the pipeline's artifact in VALIDATION, which a deploy_model
\* call without force would promote.
C37_Witness ==
    /\ \A t \in Tasks : pc[t] = "idle"
    /\ ret = Returned("retrain", FALSE, "ok", "none")
    /\ \E i, k \in 1..Len(model_registry) :
           /\ model_registry[i].status = PRODUCTION
           /\ model_registry[k].status = VALIDATION
           /\ DeployOutcome(AfterInitialize, health_scoring_service,
                            model_registry[k].id, "blue_green", FALSE,
                            "loaded").res = "ok"

\* The artifacts of status PRODUCTION.
ProductionArtifacts(reg) == {reg[i].id : i \in {j \in 1..Len(reg) : reg[j].status = PRODUCTION}}

\* The steps of the trigger_retraining call of task t: its start, and each
\* return from an await of its pipeline.
RetrainingStep(t) == pc'[t] # pc[t]

\* C38: the result validate_model gives the pipeline does not meet
\* auto_deploy_threshold; no step of a trigger_retraining call changes
\* current_production_model, the set of PRODUCTION artifacts or the active
\* model; and when the call returns True from its validation stage, the
\* artifact it created is in VALIDATION.
C38_RetrainingKeepsProduction ==
    /\ [](~AutoDeploys(ValidationResults(FALSE)))
    /\ [][\A t \in Tasks :
              RetrainingStep(t) =>
                  /\ current_production_model' = current_production_model
                  /\ ProductionArtifacts(model_registry')
                        = ProductionArtifacts(model_registry)
                  /\ health_scoring_service' = health_scoring_service
                  /\ RunCompletes(t) =>
                        /\ retrain_model[t] \in Ids(model_registry')
                        /\ retrain_model[t] \notin ProductionArtifacts(model_registry')
                        /\ StatusOf(model_registry', retrain_model[t]) = VALIDATION]_vars

\* A retraining run has returned True beside a production model that was
\* validated before its deployment: the pointer, the PRODUCTION artifacts
\* and the active model are the client's, and the run's artifact is in
\* VALIDATION.
C38_Witness ==
    /\ ret = Returned("retrain", FALSE, "ok", "none")
    /\ \A t \in Tasks : pc[t] = "idle"
    /\ Len(model_registry) = 2
    /\ model_registry[1].validation_results = "passed"
    /\ current_production_model = model_registry[1].id
    /\ health_scoring_service = model_registry[1].id
    /\ ProductionArtifacts(model_registry) = {model_registry[1].id}
    /\ model_registry[2].status = VALIDATION

\* The condition an entry of alerts_triggered is about.
ConditionOfEntry(entry) ==
    CASE entry[1] = "Low R2 score" -> "r2"
      [] entry[1] = "High drift detected" -> "drift"
      [] entry[1] = "Low data quality" -> "data_quality"
      [] entry[1] = "High prediction latency" -> "latency"

\* The condition an alert token of _check_performance_alerts is about.
ConditionOfToken(token) ==
    CASE token = "model_performance_degraded" -> "r2"
      [] token = "data_drift_detected" -> "drift"
      [] token = "data_quality_poor" -> "data_quality"
      [] token = "high_prediction_latency" -> "latency"

\* C39: after a monitor_performance call that returned its metrics, the
\* alerts_triggered of the observation appended to the history, and of its
\* file, has an entry for exactly the conditions for which
\* _check_performance_alerts gives the call an alert token to log.
C39_AlertsRecorded ==
    (ret.op = "monitor" /\ ret.res = "ok") =>
        LET metrics == performance_history[Len(performance_history)]
            stored == performance_dir[MetricsFile(metrics.timestamp)]
            alerts == _check_performance_alerts(metrics)
            raised == {ConditionOfToken(alerts[i]) : i \in 1..Len(alerts)}
        IN /\ {ConditionOfEntry(metrics.alerts_triggered[i]) :
                   i \in 1..Len(metrics.alerts_triggered)} = raised
           /\ {ConditionOfEntry(stored.alerts_triggered[i]) :
                   i \in 1..Len(stored.alerts_triggered)} = raised

\* An alert of the device and type of alert is in active_alerts with status
\* ACTIVE and was created less than 4 hours before alert.
DuplicateOf(alert) ==
    \E id \in DOMAIN active_alerts :
        LET existing == active_alerts[id]
        IN /\ existing.device_id = alert.device_id
           /\ existing.alert_type = alert.alert_type
           /\ existing.status = ACTIVE
           /\ existing.created_at > alert.created_at - duplicate_window_hours

\* The window of the last suppress_alerts call for the device and type has
\* not expired.
SuppressedNow(device_id, alert_type) ==
    LET key == suppression_key(device_id, alert_type)
    IN key \in DOMAIN suppression_rules
           /\ now < suppression_rules[key].suppressed_until

C40_GeneratedAlertsTracked ==
    /\ [][uuids' # uuids =>
              \A k \in 1..Len(generated') :
                  LET alert == generated'[k]
                      resolved == ResolveOutcome(active_alerts', alert_history', alert.id)
                  IN /\ alert.id \in DOMAIN active_alerts'
                     /\ AcknowledgeOutcome(active_alerts', alert.id).res = "ok"
                     /\ resolved.res = "ok"
                     /\ alert.id \notin DOMAIN resolved.active
                     /\ \E i \in 1..Len(resolved.history) :
                            resolved.history[i].id = alert.id]_vars
    /\ [](\A i \in 1..Len(alert_history) :
              alert_history[i].id \notin DOMAIN active_alerts)

====
